---- MODULE Spec2Model ----
(***************************************************************************)
(* Lightener: a virtual light that proxies commands to controlled lights,  *)
(* translating the brightness of each one through a per-light piecewise    *)
(* linear map (custom_components/lightener/light.py).                      *)
(*                                                                         *)
(* Python dicts are modelled as TLA+ functions whose DOMAIN is the set of  *)
(* keys; insertion-ordered dicts whose order matters (the user's           *)
(* configuration) are sequences of <<key, value>> pairs with unique keys.  *)
(* Python's None is -1 where the value is otherwise a level or a number.   *)
(***************************************************************************)
EXTENDS Integers, Sequences, FiniteSets, TLC

None == -1

\* A key that is not in a dict, where the value is otherwise a number or None.
Absent == -2

\* ------------------------------------------------------------------------
\* Bounds of the model.

\* Largest number of breakpoints in a user configuration.
MaxPoints == 3

\* Percent keys and percent values the user configurations are built from.
PercentKeys == {1, 10, 50, 100}
PercentValues == {0, 10, 100}

\* Largest number of commands, turn_on and turn_off together, in one
\* behaviour of a Lightener that is turned on and off.
MaxEvents == 3

\* Largest number of changes the targets make on their own in one behaviour.
MaxChanges == 1

\* The levels a dimmable target is set to when it changes on its own.
ChangeLevels == {100}

\* Largest number of characters of the brightness texts that are all tried.
MaxText == 5

\* Largest number of lines of the sample brightness texts.
MaxLines == 3

\* Largest number of commands a Lightener receives in one behaviour.
MaxCommands == 2

\* The brightness arguments of the commands.
BrightnessArgs == {30, 129, 255}

\* The transition arguments of the commands (None: not given).
TransitionArgs == {None, 2}

\* The color_temp_kelvin arguments of the commands (None: not given), which
\* stand for the forwarded attributes other than brightness and transition.
ColorTempArgs == {None, 3000}

\* The forwarded attributes the commands are given next to the brightness:
\* none, a color temperature, or a color temperature with a transition.
ForwardedArgs ==
    {data \in [transition : TransitionArgs, color_temp_kelvin : ColorTempArgs] :
        data.transition # None => data.color_temp_kelvin # None}

\* ------------------------------------------------------------------------
\* Numeric helpers.

\* The brightness levels, virtual and physical.
Levels == 0..255

Min(a, b) == IF a < b THEN a ELSE b
Max(a, b) == IF a > b THEN a ELSE b

\* Python's round() of the rational num / den (den # 0): nearest integer,
\* ties to the even one.  The floats the program rounds are quotients of
\* integers below 2^17, where float division is exact at ties and off by far
\* less than the distance to the nearest tie elsewhere.
round(num, den) ==
    LET n == IF den < 0 THEN 0 - num ELSE num
        d == IF den < 0 THEN 0 - den ELSE den
        q == n \div d
        r == n % d
    IN  IF 2 * r < d THEN q
        ELSE IF 2 * r > d THEN q + 1
        ELSE IF q % 2 = 0 THEN q ELSE q + 1

\* round() as a round-half-up would compute it.
scale_ranged_value_to_int_range_half_up(source_range, target_range, value) ==
    LET a == source_range[1]
        b == source_range[2]
        c == target_range[1]
        d == target_range[2]
        num == c * (b - a) + (value - a) * (d - c)
        den == b - a
        n == IF den < 0 THEN 0 - num ELSE num
        m == IF den < 0 THEN 0 - den ELSE den
    IN  (2 * n + m) \div (2 * m)

\* int(y) instead of round(y).
scale_ranged_value_to_int_range_truncated(source_range, target_range, value) ==
    LET a == source_range[1]
        b == source_range[2]
        c == target_range[1]
        d == target_range[2]
        num == c * (b - a) + (value - a) * (d - c)
        den == b - a
    IN  IF den < 0 THEN (0 - num) \div (0 - den) ELSE num \div den

\* The slope divided with integer division before it is multiplied.
scale_ranged_value_to_int_range_int_slope(source_range, target_range, value) ==
    LET a == source_range[1]
        b == source_range[2]
        c == target_range[1]
        d == target_range[2]
    IN  c + (value - a) * ((d - c) \div (b - a))

\* The scaled value rounded up: ceil(y).
scale_ranged_value_to_int_range_ceiling(source_range, target_range, value) ==
    LET a == source_range[1]
        b == source_range[2]
        c == target_range[1]
        d == target_range[2]
        num == IF b < a THEN 0 - (c * (b - a) + (value - a) * (d - c))
               ELSE c * (b - a) + (value - a) * (d - c)
        den == IF b < a THEN a - b ELSE b - a
    IN  0 - ((0 - num) \div den)

\* The scaled value without the start of the target range:
\* y = ((value - a) * (d - c)) / (b - a).
scale_ranged_value_to_int_range_from_zero(source_range, target_range, value) ==
    LET a == source_range[1]
        b == source_range[2]
        c == target_range[1]
        d == target_range[2]
    IN  round((value - a) * (d - c), b - a)

\* y = c + ((value - a) * (d - c)) / (b - a); return round(y)
scale_ranged_value_to_int_range(source_range, target_range, value) ==
    LET a == source_range[1]
        b == source_range[2]
        c == target_range[1]
        d == target_range[2]
    IN  round(c * (b - a) + (value - a) * (d - c), b - a)

\* value_to_brightness scaling the range (low, high) onto (1, 255) end to
\* end: (255 - 1) * (value - low) / (high - low) + 1.
value_to_brightness_end_to_end(low_high_range, value) ==
    LET width == low_high_range[2] - low_high_range[1]
    IN  Min(255, Max(1, round((value - low_high_range[1]) * 254 + width,
                              width)))

\* value_to_brightness rounding half up.
value_to_brightness_half_up(low_high_range, value) ==
    LET source_offset == low_high_range[1] - 1
        span == low_high_range[2] - low_high_range[1] + 1
    IN  Min(255, Max(1, (2 * (value - source_offset) * 255 + span)
                            \div (2 * span)))

\* homeassistant.util.color.value_to_brightness(low_high_range, value):
\* min(255, max(1, round(scale_to_ranged_value(range, (1, 255), value)))),
\* where scale_to_ranged_value is
\* (value - (low - 1)) * 255 / (high - low + 1) + 0.
value_to_brightness(low_high_range, value) ==
    LET source_offset == low_high_range[1] - 1
        span == low_high_range[2] - low_high_range[1] + 1
    IN  Min(255, Max(1, round((value - source_offset) * 255, span)))

\* ------------------------------------------------------------------------
\* Insertion-ordered dicts as sequences of <<key, value>> pairs.

DictKeys(d) == {d[i][1] : i \in 1..Len(d)}

\* d[k] = v: replaces the value in place, or appends a new item.
DictSet(d, k, v) ==
    IF k \in DictKeys(d)
    THEN [i \in 1..Len(d) |-> IF d[i][1] = k THEN <<k, v>> ELSE d[i]]
    ELSE Append(d, <<k, v>>)

\* d.setdefault(k, v)
DictSetDefault(d, k, v) == IF k \in DictKeys(d) THEN d ELSE Append(d, <<k, v>>)

\* Tuple comparison of two (level, value) items.
ItemLess(x, y) == x[1] < y[1] \/ (x[1] = y[1] /\ x[2] < y[2])

RECURSIVE sorted(_)
\* sorted(items): ascending, by selecting the least item first.
sorted(items) ==
    IF Len(items) = 0 THEN <<>>
    ELSE LET least == CHOOSE i \in 1..Len(items) :
                        \A k \in 1..Len(items) :
                            k = i \/ ItemLess(items[i], items[k])
                                  \/ (items[i] = items[k] /\ i < k)
             rest == [k \in 1..(Len(items) - 1) |->
                        IF k < least THEN items[k] ELSE items[k + 1]]
         IN  <<items[least]>> \o sorted(rest)

\* ------------------------------------------------------------------------
\* Range preparation.

RECURSIVE translate_items(_, _, _)
translate_items(config, i, acc) ==
    IF i > Len(config) THEN acc
    ELSE translate_items(config, i + 1,
            DictSet(acc,
                    value_to_brightness(<<1, 100>>, config[i][1]),
                    IF config[i][2] = 0 THEN 0
                    ELSE value_to_brightness(<<1, 100>>, config[i][2])))

\* Copy of config with the 1-100 range converted to 1-255 (value 0 stays 0).
translate_config_to_brightness(config) == translate_items(config, 1, <<>>)

\* Without config[0] = 0.
prepare_brightness_config_no_zero(config) ==
    sorted(DictSetDefault(translate_config_to_brightness(config), 255, 255))

\* With the default of level 255 left in percent: setdefault(255, 100).
prepare_brightness_config_default_percent(config) ==
    sorted(DictSetDefault(DictSet(translate_config_to_brightness(config), 0, 0),
                          255, 100))

\* With level 255 forced like level 0: config[255] = 255.
prepare_brightness_config_forced_end(config) ==
    sorted(DictSet(DictSet(translate_config_to_brightness(config), 0, 0),
                   255, 255))

\* The translated config with (0, 0) forced, 255 defaulted, sorted by level.
prepare_brightness_config(config) ==
    sorted(DictSetDefault(DictSet(translate_config_to_brightness(config), 0, 0),
                          255, 255))

\* ------------------------------------------------------------------------
\* Forward map.

\* The inner loop of create_brightness_map over segment i of config:
\* brightness_map[j] = scale(...) for j in range(start + 1, stop + 1).
FillSegment(brightness_map, config, i, stop) ==
    LET start == config[i][1]
        end == config[i + 1][1]
        start_value == config[i][2]
        end_value == config[i + 1][2]
    IN  [j \in (start + 1)..stop |->
            scale_ranged_value_to_int_range(
                <<start, end>>, <<start_value, end_value>>, j)]
        @@ brightness_map

RECURSIVE FillSegments(_, _, _)
FillSegments(brightness_map, config, i) ==
    IF i >= Len(config) THEN brightness_map
    ELSE FillSegments(
            FillSegment(brightness_map, config, i, config[i + 1][1]),
            config, i + 1)

RECURSIVE FillSegmentsOpen(_, _, _)
FillSegmentsOpen(brightness_map, config, i) ==
    IF i >= Len(config) THEN brightness_map
    ELSE FillSegmentsOpen(
            FillSegment(brightness_map, config, i, config[i + 1][1] - 1),
            config, i + 1)

\* The inner loop as range(start + 1, end), leaving the end of a segment out.
create_brightness_map_open_end(config) == FillSegmentsOpen((0 :> 0), config, 1)

\* Mapping of lightener levels to entity levels.
create_brightness_map(config) == FillSegments((0 :> 0), config, 1)

\* ------------------------------------------------------------------------
\* Backward map.

\* Membership test of a Python list.
InList(x, list) == \E n \in 1..Len(list) : list[n] = x

\* TRUE of every table of the program (they all have keys).  TLC evaluates
\* the arguments of an operator when they are first used; testing a table
\* has it evaluated at that point, so that the loop below is followed
\* iteration after iteration.
Evaluated(table) == DOMAIN table # {}

RECURSIVE SeedLevels(_, _, _, _)
\* for k, v in lightener_levels.items(): reverse_brightness_map[v].append(k)
\* for the keys k in lo..hi.  The items come in insertion order, which
\* create_brightness_map makes the ascending order of the keys; the range
\* is followed in that order, first half then second half.
SeedLevels(reverse_brightness_map, lightener_levels, lo, hi) ==
    IF lo > hi THEN reverse_brightness_map
    ELSE IF lo = hi
    THEN IF lo \in DOMAIN lightener_levels
         THEN [reverse_brightness_map EXCEPT
                    ![lightener_levels[lo]] = Append(@, lo)]
         ELSE reverse_brightness_map
    ELSE LET mid == (lo + hi) \div 2
             first == SeedLevels(reverse_brightness_map, lightener_levels,
                                 lo, mid)
         IN  IF Evaluated(first)
             THEN SeedLevels(first, lightener_levels, mid + 1, hi)
             ELSE first

\* j in range(start_value, end_value + order, order)
InWalk(j, start_value, end_value, order) ==
    IF order = 1 THEN start_value <= j /\ j <= end_value
    ELSE end_value <= j /\ j <= start_value

\* One step of the walk of the entity range of segment i, at entity level j,
\* on list = reverse_brightness_map[j]: the lightener level scaled back is
\* appended if not yet present.
WalkStep(list, config, i, j) ==
    LET start == config[i][1]
        end == config[i + 1][1]
        start_value == config[i][2]
        end_value == config[i + 1][2]
        entity_level == scale_ranged_value_to_int_range(
                            <<start_value, end_value>>, <<start, end>>, j)
    IN  IF InList(entity_level, list) THEN list ELSE Append(list, entity_level)

\* The step without the test for an entry already present.
WalkStepAlways(list, config, i, j) ==
    LET start == config[i][1]
        end == config[i + 1][1]
        start_value == config[i][2]
        end_value == config[i + 1][2]
        entity_level == scale_ranged_value_to_int_range(
                            <<start_value, end_value>>, <<start, end>>, j)
    IN  Append(list, entity_level)

RECURSIVE WalkSegments(_, _, _, _, _)
\* for i in range(1, len(config)): if start_value != end_value, walk the
\* entity range of segment i.  The step of a walk at entity level j reads
\* and writes reverse_brightness_map[j] only, so the two loops are followed
\* for one j at a time, on list = reverse_brightness_map[j]; kind selects the
\* step ("code" is the program's).
WalkSegments(list, config, i, j, kind) ==
    IF i >= Len(config) THEN list
    ELSE LET start_value == config[i][2]
             end_value == config[i + 1][2]
             order == IF start_value < end_value THEN 1 ELSE -1
         IN  WalkSegments(
                IF /\ start_value # end_value
                   /\ kind = "ascending" => start_value < end_value
                   /\ InWalk(j, start_value, end_value, order)
                THEN IF kind = "always" THEN WalkStepAlways(list, config, i, j)
                     ELSE WalkStep(list, config, i, j)
                ELSE list,
                config, i + 1, j, kind)

\* The walks of all segments, on a seeded map.
Walked(seeded, config, kind) ==
    [j \in DOMAIN seeded |-> WalkSegments(seeded[j], config, 1, j, kind)]

\* reverse_brightness_map = {i: [] for i in range(256)}
EmptyReverseMap == [i \in 0..255 |-> <<>>]

\* The source ranges create_brightness_map gives
\* scale_ranged_value_to_int_range: (start, end) of every segment whose
\* range(start + 1, end + 1) is not empty.
ForwardCalls(config) ==
    { <<config[i][1], config[i + 1][1]>> :
        i \in {n \in 1..(Len(config) - 1) : config[n][1] + 1 <= config[n + 1][1]} }

\* The source ranges of a walk made for every segment, without the test
\* start_value != end_value.
BackwardCalls_unguarded(config) ==
    { <<config[i][2], config[i + 1][2]>> : i \in 1..(Len(config) - 1) }

\* The source ranges create_reverse_brightness_map gives
\* scale_ranged_value_to_int_range: (start_value, end_value) of every
\* segment with start_value != end_value, whose walk is never empty.
BackwardCalls(config) ==
    { <<config[i][2], config[i + 1][2]>> :
        i \in {n \in 1..(Len(config) - 1) : config[n][2] # config[n + 1][2]} }

\* Without the entries of the forward map.
create_reverse_brightness_map_unseeded(config, lightener_levels) ==
    Walked(EmptyReverseMap, config, "code")

\* Without the walk of the entity ranges.
create_reverse_brightness_map_unwalked(config, lightener_levels) ==
    SeedLevels(EmptyReverseMap, lightener_levels, 0, 255)

\* The walk as range(start_value, end_value + 1), empty when descending.
create_reverse_brightness_map_ascending(config, lightener_levels) ==
    Walked(SeedLevels(EmptyReverseMap, lightener_levels, 0, 255),
           config, "ascending")

\* The walk appending without the membership test.
create_reverse_brightness_map_always(config, lightener_levels) ==
    Walked(SeedLevels(EmptyReverseMap, lightener_levels, 0, 255),
           config, "always")

\* Map of every entity level (0 to 255) to all possible lightener levels.
create_reverse_brightness_map(config, lightener_levels) ==
    Walked(SeedLevels(EmptyReverseMap, lightener_levels, 0, 255),
           config, "code")

\* The reversed map for on/off lights with every level from 1 to 255 as an
\* "on" level.
create_reverse_brightness_map_on_off_all(reverse_map) ==
    [i \in 0..255 |-> IF i = 0 THEN reverse_map[0] ELSE [n \in 1..255 |-> n]]

\* The reversed map for on/off lights with level 0 as the only "off" level.
create_reverse_brightness_map_on_off_zero(reverse_map) ==
    LET on_levels == SelectSeq([i \in 1..255 |-> i],
                               LAMBDA i : ~InList(i, reverse_map[0]))
    IN  [i \in 0..255 |-> IF i = 0 THEN <<0>> ELSE on_levels]

\* Reversed map dedicated to on/off lights.
create_reverse_brightness_map_on_off(reverse_map) ==
    LET on_levels == SelectSeq([i \in 1..255 |-> i],
                               LAMBDA i : ~InList(i, reverse_map[0]))
    IN  [i \in 0..255 |-> IF i = 0 THEN reverse_map[0] ELSE on_levels]

\* ------------------------------------------------------------------------
\* Controlled lights.

TYPE_DIMMABLE == "dimmable"
TYPE_ONOFF == "on_off"

\* A table with every entry computed.
Built(table) == table @@ <<>>

\* The tables LightenerControlledLight.__init__ builds from
\* config.get("brightness", {}) = cfg.
ControlledLight(cfg) ==
    LET prepared == prepare_brightness_config(cfg)
        forward == create_brightness_map(prepared)
        backward == Built(create_reverse_brightness_map(prepared, forward))
    IN  [levels |-> forward,
         to_lightener_levels |-> backward,
         to_lightener_levels_on_off |->
            Built(create_reverse_brightness_map_on_off(backward))]

\* A target of a Lightener: its entity id, its "brightness" configuration
\* and the type get_light_type reports for it.
Target(entity_id, cfg, type) ==
    [entity_id |-> entity_id, config |-> cfg, type |-> type]

\* The Lighteners of the model, by the "entities" of their configuration.
Setups ==
    { <<Target("light.test1", <<>>, TYPE_DIMMABLE),
        Target("light.test2", <<>>, TYPE_DIMMABLE)>>,
      <<Target("light.test1", <<>>, TYPE_DIMMABLE),
        Target("light.test2", <<<<50, 0>>>>, TYPE_DIMMABLE)>>,
      <<Target("light.test1", <<<<50, 100>>>>, TYPE_DIMMABLE),
        Target("light.test_onoff", <<<<50, 0>>>>, TYPE_ONOFF)>> }

\* The type of a target without supported color modes: self.type is None.
TYPE_NONE == "none"

\* A configured target that has no state in hass.
MissingEntityId == "light.I_DONT_EXIST"

\* The Lighteners whose targets also change on their own: those above, and
\* one with a target that does not exist.
GroupSetups ==
    Setups \cup
    { <<Target("light.test1", <<<<50, 0>>>>, TYPE_DIMMABLE),
        Target(MissingEntityId, <<>>, TYPE_NONE)>> }

LightConfigs == {setup[n].config : setup \in GroupSetups, n \in 1..2}

\* The controlled lights of the Lighteners: their tables are built once, by
\* the constructor, and only read afterwards.
Lights == Built([cfg \in LightConfigs |-> ControlledLight(cfg)])

\* ------------------------------------------------------------------------
\* State.

VARIABLES
    config_brightness,           \* the "brightness" dict given to a controlled light
    brightness_config,           \* prepare_brightness_config(config)
    levels,                      \* LightenerControlledLight.levels
    to_lightener_levels,         \* LightenerControlledLight.to_lightener_levels
    to_lightener_levels_on_off,  \* LightenerControlledLight.to_lightener_levels_on_off
    entities,                    \* LightenerLight._entities
    attr_brightness,             \* LightenerLight._attr_brightness
    prefered_brightness,         \* LightenerLight._prefered_brightness
    is_frozen,                   \* LightenerLight._is_frozen
    is_on,                       \* LightenerLight.is_on
    context,                     \* LightenerLight._context (an id, or None)
    states,                      \* hass.states of the targets, by entity id
    running,                     \* the command coroutine in progress
    last,                        \* how the last command ended
    refresh,                     \* "turn_on refresh" tasks scheduled
    published,                   \* the state of the Lightener written to hass
    commands,                    \* commands received so far
    contexts,                    \* context ids issued so far
    is_lightener_change,         \* is_lightener_change of the last group update
    percent_config,              \* a dict given to translate_config_to_brightness
    translated_config,           \* the dict translate_config_to_brightness returned
    turn_offs,                   \* turn_off commands received so far
    changes,                     \* changes the targets made on their own so far
    history,                     \* the commands that have ended, in order
    attr_color_mode,             \* LightGroup._attr_color_mode
    attr_supported_color_modes,  \* LightGroup._attr_supported_color_modes
    config_entry,                \* the config entry of the Lightener, if any
    flow_handler,                \* the flow in progress: "config", "options" or "none"
    flow_data,                   \* LightenerFlow.data
    local_data,                  \* LightenerFlow.local_data
    flow_result,                 \* the FlowResult the last step returned
    user_selection,              \* the lights submitted last, if any
    user_text,                   \* the brightness text submitted last, if any
    migrated,                    \* what async_migrate_entry returned, if called
    suspended                    \* a second command coroutine, waiting at its await

lightVars == <<config_brightness, brightness_config, levels, to_lightener_levels,
               to_lightener_levels_on_off>>

lightenerVars == <<entities, attr_brightness, prefered_brightness, is_frozen,
                   is_on, context, states, running, last, refresh,
                   published, commands, contexts, is_lightener_change>>

translateVars == <<percent_config, translated_config>>

groupVars == <<turn_offs, changes, history>>

colorVars == <<attr_color_mode, attr_supported_color_modes>>

flowVars ==
    <<config_entry, flow_handler, flow_data, local_data, flow_result,
      user_selection, user_text, migrated>>

overlapVars == <<suspended>>

vars ==
    <<lightVars, lightenerVars, translateVars, groupVars, colorVars, flowVars,
      overlapVars>>

\* What the specification of the brightness tables, of the percent scaling
\* and of the Lightener each leave alone.
mapFrame ==
    <<lightenerVars, translateVars, groupVars, colorVars, flowVars, overlapVars>>
translateFrame ==
    <<lightVars, lightenerVars, groupVars, colorVars, flowVars, overlapVars>>
lightenerFrame == <<lightVars, translateVars, colorVars, flowVars, overlapVars>>
colorFrame == <<lightVars, translateVars, groupVars, flowVars, overlapVars>>
flowFrame ==
    <<lightVars, lightenerVars, translateVars, groupVars, colorVars, overlapVars>>

\* The turn_on and turn_off commands received.
Events == commands + turn_offs

\* The color modes of a light.
COLOR_MODE_UNKNOWN == "unknown"
COLOR_MODE_ONOFF == "onoff"
COLOR_MODE_BRIGHTNESS == "brightness"
COLOR_MODE_COLOR_TEMP == "color_temp"
COLOR_MODE_XY == "xy"

ColorModes ==
    {COLOR_MODE_UNKNOWN, COLOR_MODE_ONOFF, COLOR_MODE_BRIGHTNESS,
     COLOR_MODE_COLOR_TEMP, COLOR_MODE_XY}

\* None where the value is otherwise a color mode.
NoColorMode == "None"

\* An optional set of color modes: <<>> is None, <<modes>> is the set modes.
OptionalColorModes == {<<>>} \cup {<<modes>> : modes \in SUBSET ColorModes}

\* The group has not computed its color modes yet.
NoColor ==
    /\ attr_color_mode = COLOR_MODE_UNKNOWN
    /\ attr_supported_color_modes = <<>>

\* An optional value: <<>> is None or a missing key, <<value>> is value.
Missing == <<>>

\* An empty dict. A dict is the sequence of its <<key, value>> items in
\* insertion order.
EmptyDict == <<>>

\* The data of a flow or of an entry: {} has neither key.
EmptyData == [friendly_name |-> Missing, entities |-> Missing]

\* LightenerFlow.local_data == {}
NoLocalData == [controlled_entities |-> Missing, current_light |-> Missing]

\* No step has returned a result.
NoResult ==
    [type |-> "none", step_id |-> "", last_step |-> FALSE, errors |-> {},
     description_placeholders |-> [light_name |-> Missing,
                                   error_entry |-> Missing],
     default |-> Missing, suggested_value |-> Missing,
     title |-> Missing, data |-> EmptyData]

\* No config entry exists, no flow is in progress and no migration has run.
NoFlow ==
    /\ config_entry = Missing
    /\ flow_handler = "none"
    /\ flow_data = EmptyData
    /\ local_data = NoLocalData
    /\ flow_result = NoResult
    /\ user_selection = Missing
    /\ user_text = Missing
    /\ migrated = Missing

\* No turn_off command was received and no target has changed on its own.
NoHistory ==
    /\ turn_offs = 0
    /\ changes = 0
    /\ history = <<>>

\* translate_config_to_brightness has not been called on its own.
NoTranslation ==
    /\ percent_config = <<>>
    /\ translated_config = <<>>

\* The controlled light an entity of a Lightener stands for: the one held in
\* the variables when it has the configuration of the entity, else the one
\* built for the Lightener.
ControlledLightOf(entity) ==
    IF levels # <<>> /\ entity.config = config_brightness
    THEN [levels |-> levels,
          to_lightener_levels |-> to_lightener_levels,
          to_lightener_levels_on_off |-> to_lightener_levels_on_off]
    ELSE Lights[entity.config]

\* translate_brightness of an on/off light that returns the level as it is.
translate_brightness_untyped(entity, brightness) ==
    ControlledLightOf(entity).levels[brightness]

\* LightenerControlledLight.translate_brightness
translate_brightness(entity, brightness) ==
    LET level == ControlledLightOf(entity).levels[brightness]
    IN  IF entity.type = TYPE_ONOFF
        THEN (IF level = 0 THEN 0 ELSE 255)
        ELSE level

\* translate_brightness_back reading a missing brightness as level 0.
translate_brightness_back_unguarded(entity, brightness) ==
    LET level == IF brightness = None THEN 0 ELSE brightness
    IN  IF entity.type = TYPE_ONOFF
        THEN ControlledLightOf(entity).to_lightener_levels_on_off[level]
        ELSE ControlledLightOf(entity).to_lightener_levels[level]

\* LightenerControlledLight.translate_brightness_back
translate_brightness_back(entity, brightness) ==
    IF brightness = None THEN <<>>
    ELSE IF entity.type = TYPE_ONOFF
    THEN ControlledLightOf(entity).to_lightener_levels_on_off[brightness]
    ELSE ControlledLightOf(entity).to_lightener_levels[brightness]

\* LightenerControlledLight.__init__(entity_id, {"brightness": cfg}, hass)
ControlledLightInit(cfg) ==
    /\ config_brightness' = cfg
    /\ brightness_config' = prepare_brightness_config(cfg)
    /\ levels' = create_brightness_map(brightness_config')
    /\ to_lightener_levels' =
            create_reverse_brightness_map(brightness_config', levels')
    /\ to_lightener_levels_on_off' =
            create_reverse_brightness_map_on_off(to_lightener_levels')

\* The controlled light built from config.get("brightness", {}) = {}.
ControlledLightDefault ==
    /\ config_brightness = <<>>
    /\ brightness_config = prepare_brightness_config(config_brightness)
    /\ levels = create_brightness_map(brightness_config)
    /\ to_lightener_levels =
            create_reverse_brightness_map(brightness_config, levels)
    /\ to_lightener_levels_on_off =
            create_reverse_brightness_map_on_off(to_lightener_levels)

\* No controlled light has been created on its own.
NoControlledLight ==
    /\ config_brightness = <<>>
    /\ brightness_config = <<>>
    /\ levels = <<>>
    /\ to_lightener_levels = <<>>
    /\ to_lightener_levels_on_off = <<>>

EntityIds(setup) ==
    {setup[n].entity_id : n \in 1..Len(setup)} \ {MissingEntityId}

NoCommand == [pc |-> "idle"]

\* LightenerLight.__init__ for the given "entities", once added to hass:
\* every target is off, no command has been received.
LightenerInit(setup) ==
    /\ entities = setup
    /\ attr_brightness = None
    /\ prefered_brightness = None
    /\ is_frozen = FALSE
    /\ is_on = FALSE
    /\ context = None
    /\ states = [e \in EntityIds(setup) |->
                    [state |-> "off", brightness |-> None, context |-> 1]]
    /\ running = NoCommand
    /\ last = NoCommand
    /\ refresh = 0
    /\ published = [state |-> "off", brightness |-> None]
    /\ commands = 0
    /\ contexts = 1
    /\ is_lightener_change = FALSE
    /\ suspended = NoCommand

\* The light is configured again with one more breakpoint: the tables are
\* rebuilt from the new configuration.
Reconfigure ==
    /\ Len(config_brightness) < MaxPoints
    /\ \E k \in PercentKeys \ DictKeys(config_brightness), v \in PercentValues :
            ControlledLightInit(Append(config_brightness, <<k, v>>))
    /\ UNCHANGED mapFrame

\* A controlled light created on its own, next to a Lightener without
\* entities.
MapInit ==
    /\ ControlledLightDefault
    /\ LightenerInit(<<>>)
    /\ NoTranslation
    /\ NoHistory
    /\ NoColor
    /\ NoFlow

MapNext == Reconfigure

MapSpec == MapInit /\ [][MapNext]_vars

\* ------------------------------------------------------------------------
\* The percent scaling on its own.

\* The percent keys and percent values ENTITY_SCHEMA accepts.
PercentKeyRange == 1..100
PercentValueRange == 0..100

\* translate_config_to_brightness is called with a dict of one entry.
Translate(k, v) ==
    /\ percent_config = <<>>
    /\ percent_config' = <<<<k, v>>>>
    /\ translated_config' = translate_config_to_brightness(percent_config')
    /\ UNCHANGED translateFrame

TranslateInit ==
    /\ NoControlledLight
    /\ LightenerInit(<<>>)
    /\ NoTranslation
    /\ NoHistory
    /\ NoColor
    /\ NoFlow

TranslateNext ==
    \E k \in PercentKeyRange, v \in PercentValueRange : Translate(k, v)

TranslateSpec == TranslateInit /\ [][TranslateNext]_vars

\* ------------------------------------------------------------------------
\* The Lightener.

\* set(list)
ToSet(list) == {list[n] : n \in 1..Len(list)}

RECURSIVE IntersectFrom(_, _)
IntersectFrom(lists, m) ==
    IF m = Len(lists) THEN ToSet(lists[m])
    ELSE ToSet(lists[m]) \cap IntersectFrom(lists, m + 1)

\* set.union(*map(set, levels)): the levels of any of the lists.
CommonLevels_any(lists) == UNION {ToSet(lists[m]) : m \in 1..Len(lists)}

\* set.intersection(*map(set, levels)), for a non-empty list of lists.
CommonLevels(lists) == IntersectFrom(lists, 1)

\* The brightness async_update_group_state reads from the state of a target:
\* state.attributes.get(ATTR_BRIGHTNESS, 255) when on, else 0.  An attribute
\* that is present with the value None is read as None.
ObservedBrightness(state) ==
    IF state.state = "on"
    THEN (IF state.brightness = Absent THEN 255 ELSE state.brightness)
    ELSE 0

\* async_update_group_state taking any common level, without the test for
\* the preferred brightness.
UpdateGroupState_unpreferred(states_now, context_now) ==
    LET was_off == ~is_on
        current_brightness == attr_brightness
        now_on == \E e \in DOMAIN states_now : states_now[e].state = "on"
        lightener_change ==
            /\ now_on
            /\ context_now # None
            /\ \E e \in DOMAIN states_now : states_now[e].context = context_now
        with_state == SelectSeq(entities,
                                LAMBDA e : e.entity_id \in DOMAIN states_now)
        lists == [n \in 1..Len(with_state) |->
                    translate_brightness_back(
                        with_state[n],
                        ObservedBrightness(states_now[with_state[n].entity_id]))]
        common_level ==
            IF ~now_on \/ Len(lists) = 0 THEN {}
            ELSE CommonLevels(lists)
    IN  /\ is_on' = now_on
        /\ is_lightener_change' = lightener_change
        /\ IF common_level # {}
           THEN attr_brightness' \in common_level
           ELSE attr_brightness' =
                    IF lightener_change THEN prefered_brightness
                    ELSE IF now_on \/ was_off THEN current_brightness
                    ELSE None

\* async_update_group_state falling back on the current brightness also
\* when the update is caused by the Lightener.
UpdateGroupState_keeping(states_now, context_now) ==
    LET was_off == ~is_on
        current_brightness == attr_brightness
        now_on == \E e \in DOMAIN states_now : states_now[e].state = "on"
        lightener_change ==
            /\ now_on
            /\ context_now # None
            /\ \E e \in DOMAIN states_now : states_now[e].context = context_now
        with_state == SelectSeq(entities,
                                LAMBDA e : e.entity_id \in DOMAIN states_now)
        lists == [n \in 1..Len(with_state) |->
                    translate_brightness_back(
                        with_state[n],
                        ObservedBrightness(states_now[with_state[n].entity_id]))]
        common_level ==
            IF ~now_on \/ Len(lists) = 0 THEN {}
            ELSE IF prefered_brightness \in CommonLevels(lists)
            THEN {prefered_brightness}
            ELSE CommonLevels(lists)
    IN  /\ is_on' = now_on
        /\ is_lightener_change' = lightener_change
        /\ IF common_level # {}
           THEN attr_brightness' \in common_level
           ELSE attr_brightness' =
                    IF now_on \/ was_off THEN current_brightness
                    ELSE None

\* LightenerLight.async_update_group_state, unless frozen, when the states
\* of the targets are states_now and the context of the Lightener is
\* context_now.  The group's own update sets is_on to whether any target is
\* on; the brightness it computes is overwritten on every path.  A target
\* without a state is ignored.
\* common_level.pop() returns an arbitrary element of the set.
UpdateGroupState(states_now, context_now) ==
    LET was_off == ~is_on
        current_brightness == attr_brightness
        now_on == \E e \in DOMAIN states_now : states_now[e].state = "on"
        lightener_change ==
            /\ now_on
            /\ context_now # None
            /\ \E e \in DOMAIN states_now : states_now[e].context = context_now
        with_state == SelectSeq(entities,
                                LAMBDA e : e.entity_id \in DOMAIN states_now)
        lists == [n \in 1..Len(with_state) |->
                    translate_brightness_back(
                        with_state[n],
                        ObservedBrightness(states_now[with_state[n].entity_id]))]
        common_level ==
            IF ~now_on \/ Len(lists) = 0 THEN {}
            ELSE IF prefered_brightness \in CommonLevels(lists)
            THEN {prefered_brightness}
            ELSE CommonLevels(lists)
    IN  /\ is_on' = now_on
        /\ is_lightener_change' = lightener_change
        /\ IF common_level # {}
           THEN attr_brightness' \in common_level
           ELSE attr_brightness' =
                    IF lightener_change THEN prefered_brightness
                    ELSE IF now_on \/ was_off THEN current_brightness
                    ELSE None

\* The update and the write without the two "if self._is_frozen: return".
UpdateAndWrite_unfrozen(states_now, context_now) ==
    /\ UpdateGroupState(states_now, context_now)
    /\ published' =
            [state |-> IF is_on' THEN "on" ELSE "off",
             brightness |-> IF is_on' THEN attr_brightness' ELSE None]

\* async_update_group_state followed by async_write_ha_state: both return at
\* once while the Lightener is frozen.
UpdateAndWrite(states_now, context_now) ==
    IF is_frozen
    THEN UNCHANGED <<is_on, attr_brightness, published, is_lightener_change>>
    ELSE /\ UpdateGroupState(states_now, context_now)
         /\ published' =
                [state |-> IF is_on' THEN "on" ELSE "off",
                 brightness |-> IF is_on' THEN attr_brightness' ELSE None]

\* A command arrives: LightenerLight.async_turn_on(**kwargs) up to its first
\* service call.  brightness, transition and color_temp_kelvin are the
\* kwargs (None: absent);
\* a command that arrives through the light.turn_on service has set the
\* context of the Lightener to the context of that service call.
TurnOn(brightness, transition, color_temp_kelvin, through_service) ==
    LET effective == IF brightness = None /\ attr_brightness \notin {None, 0}
                     THEN attr_brightness ELSE brightness
        used == IF effective = None THEN prefered_brightness ELSE effective
    IN  /\ running.pc = "idle"
        /\ commands < MaxCommands
        /\ commands' = commands + 1
        /\ IF through_service
           THEN context' = contexts + 1 /\ contexts' = contexts + 1
           ELSE UNCHANGED <<context, contexts>>
        /\ attr_brightness' =
                IF brightness = None /\ attr_brightness \notin {None, 0}
                THEN attr_brightness ELSE brightness
        /\ prefered_brightness' =
                IF effective = None THEN prefered_brightness ELSE effective
        /\ is_frozen' = TRUE
        /\ running' = [pc |-> "turn_on",
                       data |-> [brightness |-> brightness,
                                 transition |-> transition,
                                 color_temp_kelvin |-> color_temp_kelvin],
                       brightness |-> used,
                       i |-> 1,
                       calls |-> <<>>]
        /\ UNCHANGED <<entities, is_on, states, last, refresh, published,
                       is_lightener_change>>

\* The service call with entity_data = data.copy() for turn_off as well.
ServiceCall_copying(entity) ==
    LET entity_brightness ==
            IF running.brightness # None
            THEN translate_brightness(entity, running.brightness)
            ELSE None
    IN  IF entity_brightness = 0
        THEN [service |-> "turn_off",
              entity_id |-> entity.entity_id,
              brightness |-> None,
              transition |-> running.data.transition,
              color_temp_kelvin |-> running.data.color_temp_kelvin,
              context |-> context]
        ELSE [service |-> "turn_on",
              entity_id |-> entity.entity_id,
              brightness |-> IF running.brightness # None
                             THEN entity_brightness
                             ELSE running.data.brightness,
              transition |-> running.data.transition,
              color_temp_kelvin |-> running.data.color_temp_kelvin,
              context |-> context]

\* The service call made without context=self._context.
ServiceCall_untagged(entity) ==
    LET entity_brightness ==
            IF running.brightness # None
            THEN translate_brightness(entity, running.brightness)
            ELSE None
    IN  IF entity_brightness = 0
        THEN [service |-> "turn_off",
              entity_id |-> entity.entity_id,
              brightness |-> None,
              transition |-> running.data.transition,
              color_temp_kelvin |-> None,
              context |-> None]
        ELSE [service |-> "turn_on",
              entity_id |-> entity.entity_id,
              brightness |-> IF running.brightness # None
                             THEN entity_brightness
                             ELSE running.data.brightness,
              transition |-> running.data.transition,
              color_temp_kelvin |-> running.data.color_temp_kelvin,
              context |-> None]

\* The service call the loop of async_turn_on makes for an entity.
ServiceCall(entity) ==
    LET entity_brightness ==
            IF running.brightness # None
            THEN translate_brightness(entity, running.brightness)
            ELSE None
    IN  IF entity_brightness = 0
        THEN [service |-> "turn_off",
              entity_id |-> entity.entity_id,
              brightness |-> None,
              transition |-> running.data.transition,
              color_temp_kelvin |-> None,
              context |-> context]
        ELSE [service |-> "turn_on",
              entity_id |-> entity.entity_id,
              brightness |-> IF running.brightness # None
                             THEN entity_brightness
                             ELSE running.data.brightness,
              transition |-> running.data.transition,
              color_temp_kelvin |-> running.data.color_temp_kelvin,
              context |-> context]

\* The state a target takes when it carries out a service call.  Turned on,
\* a dimmable light shows the brightness it was given, or the one it had when
\* it is given none; an on/off light has no brightness attribute.  A light
\* keeps its brightness while it is off.
Applied(call, type, old_state, call_context) ==
    IF call.service = "turn_off"
    THEN [state |-> "off",
          brightness |-> old_state.brightness,
          context |-> call_context]
    ELSE [state |-> "on",
          brightness |-> IF type = TYPE_ONOFF THEN Absent
                         ELSE IF call.brightness = None
                         THEN old_state.brightness
                         ELSE call.brightness,
          context |-> call_context]

\* One iteration of the loop of async_turn_on whose service call returns:
\* the target has carried out the call (a call without context gets a new
\* one; a call for a target that does not exist does nothing).  If that
\* changes the state of the target, hass writes the new state
\* with the context of the call and tells the group at once, which takes the
\* context of the event, updates and writes its state.
TurnOnCall ==
    /\ running.pc = "turn_on"
    /\ running.i <= Len(entities)
    /\ LET entity == entities[running.i]
           exists == entity.entity_id \in DOMAIN states
           old_state == states[entity.entity_id]
           call == ServiceCall(entity)
           call_context == IF call.context = None THEN contexts + 1
                           ELSE call.context
           new_state == Applied(call, entity.type, old_state, call_context)
           changed == /\ exists
                      /\ \/ new_state.state # old_state.state
                         \/ new_state.brightness # old_state.brightness
       IN  /\ contexts' = IF call.context = None THEN contexts + 1
                        ELSE contexts
           /\ running' = [running EXCEPT !.i = @ + 1,
                                         !.calls = Append(@, call)]
           /\ IF changed
              THEN /\ states' = [states EXCEPT ![entity.entity_id] = new_state]
                   /\ context' = call_context
                   /\ UpdateAndWrite(states', context')
              ELSE UNCHANGED <<states, context, is_on, attr_brightness,
                               published, is_lightener_change>>
    /\ UNCHANGED <<entities, prefered_brightness, is_frozen, last, refresh,
                   commands>>

\* One iteration of the loop of async_turn_on whose service call raises: the
\* exception leaves async_turn_on.
TurnOnCallRaises ==
    /\ running.pc = "turn_on"
    /\ running.i <= Len(entities)
    /\ last' = [pc |-> "raised",
                data |-> running.data,
                brightness |-> running.brightness,
                calls |-> Append(running.calls, ServiceCall(entities[running.i])),
                failed |-> {entities[running.i].entity_id}]
    /\ running' = NoCommand
    /\ UNCHANGED <<entities, attr_brightness, prefered_brightness, is_frozen,
                   is_on, context, states, refresh, published, commands,
                   contexts, is_lightener_change>>

\* The end of async_turn_on without hass.async_create_task(_async_refresh()).
TurnOnReturn_unscheduled ==
    /\ running.pc = "turn_on"
    /\ running.i > Len(entities)
    /\ is_frozen' = FALSE
    /\ last' = [pc |-> "returned",
                data |-> running.data,
                brightness |-> running.brightness,
                calls |-> running.calls,
                failed |-> {}]
    /\ running' = NoCommand
    /\ UNCHANGED <<entities, attr_brightness, prefered_brightness, is_on,
                   context, states, published, commands, contexts,
                   is_lightener_change, refresh>>

\* The end of async_turn_on, after the loop: the Lightener is unfrozen and
\* the refresh task is scheduled.
TurnOnReturn ==
    /\ running.pc = "turn_on"
    /\ running.i > Len(entities)
    /\ is_frozen' = FALSE
    /\ refresh' = refresh + 1
    /\ last' = [pc |-> "returned",
                data |-> running.data,
                brightness |-> running.brightness,
                calls |-> running.calls,
                failed |-> {}]
    /\ running' = NoCommand
    /\ UNCHANGED <<entities, attr_brightness, prefered_brightness, is_on,
                   context, states, published, commands, contexts,
                   is_lightener_change>>

\* The task "Lightener [turn_on refresh]": _async_refresh.
TurnOnRefresh ==
    /\ refresh > 0
    /\ refresh' = refresh - 1
    /\ UpdateAndWrite(states, context)
    /\ UNCHANGED <<entities, prefered_brightness, is_frozen, context, states,
                   running, last, commands, contexts>>

Init ==
    /\ NoControlledLight
    /\ NoTranslation
    /\ NoHistory
    /\ NoColor
    /\ NoFlow
    /\ \E setup \in Setups : LightenerInit(setup)

Next ==
    \/ /\ \E brightness \in BrightnessArgs \cup {None},
             forwarded \in ForwardedArgs,
             through_service \in BOOLEAN :
                TurnOn(brightness, forwarded.transition,
                       forwarded.color_temp_kelvin, through_service)
       /\ UNCHANGED <<lightenerFrame, groupVars>>
    \/ TurnOnCall /\ UNCHANGED <<lightenerFrame, groupVars>>
    \/ TurnOnCallRaises /\ UNCHANGED <<lightenerFrame, groupVars>>
    \/ TurnOnReturn /\ UNCHANGED <<lightenerFrame, groupVars>>
    \/ TurnOnRefresh /\ UNCHANGED <<lightenerFrame, groupVars>>

Spec == Init /\ [][Next]_vars

\* ------------------------------------------------------------------------
\* The Lightener turned on and off, over targets that carry out every call
\* and that also change on their own.

\* async_turn_off clearing the preferred brightness.
TurnOff_forgetting(through_service) ==
    /\ running.pc = "idle"
    /\ Events < MaxEvents
    /\ turn_offs' = turn_offs + 1
    /\ IF through_service
       THEN context' = contexts + 1 /\ contexts' = contexts + 1
       ELSE UNCHANGED <<context, contexts>>
    /\ is_frozen' = TRUE
    /\ prefered_brightness' = None
    /\ running' = [pc |-> "turn_off",
                   data |-> [brightness |-> None,
                             transition |-> None,
                             color_temp_kelvin |-> None],
                   brightness |-> None,
                   i |-> 1,
                   calls |-> <<>>]
    /\ UNCHANGED <<entities, attr_brightness, is_on, states, last, refresh,
                   published, commands, is_lightener_change>>

\* A turn_off command arrives: LightenerLight.async_turn_off(), up to the
\* service call of the group.  A command that arrives through the
\* light.turn_off service has set the context of the Lightener to the
\* context of that service call.
TurnOff(through_service) ==
    /\ running.pc = "idle"
    /\ Events < MaxEvents
    /\ turn_offs' = turn_offs + 1
    /\ IF through_service
       THEN context' = contexts + 1 /\ contexts' = contexts + 1
       ELSE UNCHANGED <<context, contexts>>
    /\ is_frozen' = TRUE
    /\ prefered_brightness' = attr_brightness
    /\ running' = [pc |-> "turn_off",
                   data |-> [brightness |-> None,
                             transition |-> None,
                             color_temp_kelvin |-> None],
                   brightness |-> None,
                   i |-> 1,
                   calls |-> <<>>]
    /\ UNCHANGED <<entities, attr_brightness, is_on, states, last, refresh,
                   published, commands, is_lightener_change>>

\* The rest of async_turn_off: the light.turn_off call the group makes for
\* all its targets returns (every target that was on is off, its state
\* written under the context of the call, which the group takes), then the
\* Lightener is unfrozen, updates and writes its state.
TurnOffCall ==
    /\ running.pc = "turn_off"
    /\ LET call_context == IF context = None THEN contexts + 1 ELSE context
           turned_off == {e \in DOMAIN states : states[e].state = "on"}
       IN  /\ contexts' = IF context = None THEN contexts + 1 ELSE contexts
           /\ states' = [e \in DOMAIN states |->
                            IF e \in turned_off
                            THEN [states[e] EXCEPT !.state = "off",
                                                   !.context = call_context]
                            ELSE states[e]]
           /\ context' = IF turned_off # {} THEN call_context ELSE context
    /\ is_frozen' = FALSE
    /\ UpdateGroupState(states', context')
    /\ published' = [state |-> IF is_on' THEN "on" ELSE "off",
                     brightness |-> IF is_on' THEN attr_brightness' ELSE None]
    /\ last' = [pc |-> "turned_off",
                data |-> running.data,
                brightness |-> None,
                calls |-> <<>>,
                failed |-> {}]
    /\ running' = NoCommand
    /\ UNCHANGED <<entities, prefered_brightness, refresh, commands>>

\* A target changes on its own, between two commands: it is turned off, or
\* turned on at a level (an on/off light has no brightness attribute), by
\* someone else.  hass
\* writes the new state under a new context and tells the group, which
\* takes the context of the event, updates and writes its state.
StateChanged(entity, state, level) ==
    LET old_state == states[entity.entity_id]
        new_state ==
            [state |-> state,
             brightness |-> IF state = "off" THEN old_state.brightness
                            ELSE IF entity.type = TYPE_ONOFF THEN Absent
                            ELSE level,
             context |-> contexts + 1]
    IN  /\ changes < MaxChanges
        /\ running.pc = "idle"
        /\ entity.entity_id \in DOMAIN states
        /\ \/ new_state.state # old_state.state
           \/ new_state.brightness # old_state.brightness
        /\ changes' = changes + 1
        /\ contexts' = contexts + 1
        /\ states' = [states EXCEPT ![entity.entity_id] = new_state]
        /\ context' = contexts + 1
        /\ UpdateAndWrite(states', context')
        /\ UNCHANGED <<entities, prefered_brightness, is_frozen, running, last,
                       refresh, commands>>

\* What a service call asks of its target.
Request(call) ==
    [service |-> call.service,
     entity_id |-> call.entity_id,
     brightness |-> call.brightness]

GroupInit ==
    /\ NoControlledLight
    /\ NoTranslation
    /\ NoHistory
    /\ NoColor
    /\ NoFlow
    /\ \E setup \in GroupSetups : LightenerInit(setup)

\* The commands are given no forwarded attribute.  The history keeps, of a
\* turn_on, the brightness it was given and what it asked of the targets; of
\* a turn_off and of a change, the brightness the Lightener has after it.
GroupNext ==
    \/ /\ Events < MaxEvents
       /\ \E brightness \in BrightnessArgs \cup {None},
             through_service \in BOOLEAN :
                TurnOn(brightness, None, None, through_service)
       /\ UNCHANGED <<lightenerFrame, groupVars>>
    \/ TurnOnCall /\ UNCHANGED <<lightenerFrame, groupVars>>
    \/ /\ TurnOnReturn
       /\ history' = Append(history,
                            [command |-> "turn_on",
                             brightness |-> running.data.brightness,
                             calls |-> [n \in 1..Len(running.calls) |->
                                            Request(running.calls[n])]])
       /\ UNCHANGED <<lightenerFrame, turn_offs, changes>>
    \/ TurnOnRefresh /\ UNCHANGED <<lightenerFrame, groupVars>>
    \/ /\ \E through_service \in BOOLEAN : TurnOff(through_service)
       /\ UNCHANGED <<lightenerFrame, changes, history>>
    \/ /\ TurnOffCall
       /\ history' = Append(history,
                            [command |-> "turn_off",
                             brightness |-> attr_brightness',
                             calls |-> <<>>])
       /\ UNCHANGED <<lightenerFrame, turn_offs, changes>>
    \/ /\ \E n \in 1..Len(entities), state \in {"on", "off"},
             level \in ChangeLevels :
                StateChanged(entities[n], state, level)
       /\ history' = Append(history,
                            [command |-> "change",
                             brightness |-> attr_brightness',
                             calls |-> <<>>])
       /\ UNCHANGED <<lightenerFrame, turn_offs>>

GroupSpec == GroupInit /\ [][GroupNext]_vars

\* The same commands and changes when every awaited service call returns,
\* the coroutine of a command goes on after its await and the event loop
\* runs the tasks it was given.
RefreshSpec ==
    /\ GroupSpec
    /\ WF_vars(TurnOnCall /\ UNCHANGED <<lightenerFrame, groupVars>>)
    /\ WF_vars(TurnOnReturn /\ GroupNext)
    /\ WF_vars(TurnOnRefresh /\ UNCHANGED <<lightenerFrame, groupVars>>)
    /\ WF_vars(TurnOffCall /\ GroupNext)

\* ------------------------------------------------------------------------
\* The Lightener turned on, turned off more than once, and turned on again.

RepeatInit == GroupInit

\* The commands are called on the entity, one after the other, and are given
\* no forwarded attribute; no target changes on its own.  MaxCommands
\* turn_on commands are received, and the turn_off commands are among the
\* first MaxEvents commands.
RepeatNext ==
    \/ /\ \E brightness \in BrightnessArgs \cup {None} :
                TurnOn(brightness, None, None, FALSE)
       /\ UNCHANGED <<lightenerFrame, groupVars>>
    \/ TurnOnCall /\ UNCHANGED <<lightenerFrame, groupVars>>
    \/ /\ TurnOnReturn
       /\ history' = Append(history,
                            [command |-> "turn_on",
                             brightness |-> running.data.brightness,
                             calls |-> [n \in 1..Len(running.calls) |->
                                            Request(running.calls[n])]])
       /\ UNCHANGED <<lightenerFrame, turn_offs, changes>>
    \/ TurnOnRefresh /\ UNCHANGED <<lightenerFrame, groupVars>>
    \/ TurnOff(FALSE) /\ UNCHANGED <<lightenerFrame, changes, history>>
    \/ /\ TurnOffCall
       /\ history' = Append(history,
                            [command |-> "turn_off",
                             brightness |-> attr_brightness',
                             calls |-> <<>>])
       /\ UNCHANGED <<lightenerFrame, turn_offs, changes>>

RepeatSpec == RepeatInit /\ [][RepeatNext]_vars

\* ------------------------------------------------------------------------
\* The tables of a controlled light while its Lightener is in use.

\* The Lighteners over one target whose tables are held in the variables.
TableSetups ==
    { <<Target("light.test1", <<>>, TYPE_DIMMABLE)>>,
      <<Target("light.test1", <<<<50, 100>>>>, TYPE_DIMMABLE)>>,
      <<Target("light.test_onoff", <<<<250, 0>>>>, TYPE_ONOFF)>> }

\* A list or set object: the list a table of the controlled light holds
\* under a key, or an object of its own.
OwnObject == [table |-> "none", key |-> None]

\* The object translate_brightness_back returns: a new empty list for None,
\* else the list the table holds, not a copy of it.
translate_brightness_back_object(entity, brightness) ==
    IF brightness = None THEN OwnObject
    ELSE IF entity.type = TYPE_ONOFF
    THEN [table |-> "to_lightener_levels_on_off", key |-> brightness]
    ELSE [table |-> "to_lightener_levels", key |-> brightness]

\* The two backward tables after object.pop(): a list held in a table loses
\* its last element, an object of its own is in no table.
Popped(object) ==
    [to_lightener_levels |->
        IF object.table = "to_lightener_levels"
        THEN [to_lightener_levels EXCEPT
                ![object.key] = SubSeq(@, 1, Len(@) - 1)]
        ELSE to_lightener_levels,
     to_lightener_levels_on_off |->
        IF object.table = "to_lightener_levels_on_off"
        THEN [to_lightener_levels_on_off EXCEPT
                ![object.key] = SubSeq(@, 1, Len(@) - 1)]
        ELSE to_lightener_levels_on_off]

\* common_level bound to the first list translate_brightness_back returned.
common_level_object_aliased(objects) == objects[1]

\* The object common_level is bound to when it is not empty: the set
\* {self._prefered_brightness}, or the set set.intersection builds from the
\* sets map(set, levels) builds; a new object either way.
common_level_object(objects) == OwnObject

\* The list an object is: the one the table holds, or an empty list.
ListOf(object) ==
    IF object.table = "to_lightener_levels"
    THEN to_lightener_levels[object.key]
    ELSE IF object.table = "to_lightener_levels_on_off"
    THEN to_lightener_levels_on_off[object.key]
    ELSE <<>>

\* What async_update_group_state does to the backward tables when the states
\* of the targets are states_now: it gets a list object from
\* translate_brightness_back for every target and, when common_level is not
\* empty, pops an element from common_level.
UpdateTables(states_now) ==
    LET now_on == \E e \in DOMAIN states_now : states_now[e].state = "on"
        with_state == SelectSeq(entities,
                                LAMBDA e : e.entity_id \in DOMAIN states_now)
        objects == [n \in 1..Len(with_state) |->
                    translate_brightness_back_object(
                        with_state[n],
                        ObservedBrightness(states_now[with_state[n].entity_id]))]
        lists == [n \in 1..Len(objects) |-> ListOf(objects[n])]
        pops == now_on /\ Len(lists) > 0 /\ CommonLevels(lists) # {}
        after == Popped(IF pops THEN common_level_object(objects)
                        ELSE OwnObject)
    IN  /\ to_lightener_levels' = after.to_lightener_levels
        /\ to_lightener_levels_on_off' = after.to_lightener_levels_on_off
        /\ UNCHANGED <<config_brightness, brightness_config, levels>>

\* The same for an update that returns at once while the Lightener is frozen.
UpdateAndWriteTables(states_now) ==
    IF is_frozen THEN UNCHANGED lightVars ELSE UpdateTables(states_now)

tableFrame == <<translateVars, colorVars, flowVars, overlapVars>>

\* A Lightener over one target, whose controlled light has just been built.
TableInit ==
    /\ NoTranslation
    /\ NoHistory
    /\ NoColor
    /\ NoFlow
    /\ \E setup \in TableSetups :
            /\ config_brightness = setup[1].config
            /\ brightness_config = prepare_brightness_config(config_brightness)
            /\ levels = create_brightness_map(brightness_config)
            /\ to_lightener_levels =
                    Built(create_reverse_brightness_map(brightness_config, levels))
            /\ to_lightener_levels_on_off =
                    Built(create_reverse_brightness_map_on_off(to_lightener_levels))
            /\ LightenerInit(setup)

\* The commands and changes of the Lightener, MaxCommands of them in all,
\* with what each does to the tables: async_turn_on and its service calls read the forward table
\* through translate_brightness, every update reads the backward tables.
TableNext ==
    \/ /\ Events + changes < MaxCommands
       /\ \E brightness \in BrightnessArgs \cup {None} :
                TurnOn(brightness, None, None, FALSE)
       /\ UNCHANGED <<lightVars, tableFrame, groupVars>>
    \/ /\ TurnOnCall
       /\ UpdateAndWriteTables(states')
       /\ UNCHANGED <<tableFrame, groupVars>>
    \/ TurnOnReturn /\ UNCHANGED <<lightVars, tableFrame, groupVars>>
    \/ /\ TurnOnRefresh
       /\ UpdateAndWriteTables(states)
       /\ UNCHANGED <<tableFrame, groupVars>>
    \/ /\ Events + changes < MaxCommands
       /\ TurnOff(FALSE)
       /\ UNCHANGED <<lightVars, tableFrame, changes, history>>
    \/ /\ TurnOffCall
       /\ UpdateTables(states')
       /\ UNCHANGED <<tableFrame, groupVars>>
    \/ /\ Events + changes < MaxCommands
       /\ \E state \in {"on", "off"}, level \in ChangeLevels :
                StateChanged(entities[1], state, level)
       /\ UpdateAndWriteTables(states')
       /\ UNCHANGED <<tableFrame, turn_offs, history>>

TableSpec == TableInit /\ [][TableNext]_vars

\* ------------------------------------------------------------------------
\* Two commands of the same Lightener that overlap.

\* The event loop at an awaited service call (await
\* self.hass.services.async_call in async_turn_on, await
\* super().async_turn_off in async_turn_off): the coroutine of the command in
\* progress waits and the other coroutine, or a command that has not begun,
\* goes on.
Switch ==
    /\ running # suspended
    /\ running' = suspended
    /\ suspended' = running
    /\ UNCHANGED <<entities, attr_brightness, prefered_brightness, is_frozen,
                   is_on, context, states, last, refresh, published, commands,
                   contexts, is_lightener_change>>
    /\ UNCHANGED <<lightVars, translateVars, groupVars, colorVars, flowVars>>

OverlapInit == GroupInit

\* The commands are called on the entity and are given no forwarded
\* attribute; every service call returns.
OverlapNext ==
    \/ /\ Events < MaxEvents
       /\ \E brightness \in BrightnessArgs \cup {None} :
                TurnOn(brightness, None, None, FALSE)
       /\ UNCHANGED <<lightenerFrame, groupVars>>
    \/ TurnOnCall /\ UNCHANGED <<lightenerFrame, groupVars>>
    \/ TurnOnReturn /\ UNCHANGED <<lightenerFrame, groupVars>>
    \/ TurnOnRefresh /\ UNCHANGED <<lightenerFrame, groupVars>>
    \/ TurnOff(FALSE) /\ UNCHANGED <<lightenerFrame, changes, history>>
    \/ TurnOffCall /\ UNCHANGED <<lightenerFrame, groupVars>>
    \/ Switch

OverlapSpec == OverlapInit /\ [][OverlapNext]_vars

\* ------------------------------------------------------------------------
\* The color modes of the Lightener.

\* LightenerLight.color_mode reporting the color mode of the group as it is.
color_mode_of_group ==
    IF ~is_on THEN NoColorMode
    ELSE attr_color_mode

\* LightenerLight.color_mode
color_mode ==
    IF ~is_on THEN NoColorMode
    ELSE IF attr_color_mode = COLOR_MODE_ONOFF THEN COLOR_MODE_BRIGHTNESS
    ELSE IF attr_color_mode = COLOR_MODE_UNKNOWN THEN COLOR_MODE_BRIGHTNESS
    ELSE attr_color_mode

\* LightenerLight.supported_color_modes: the value it returns.
supported_color_modes ==
    LET color_modes ==
            IF attr_supported_color_modes = <<>> THEN {}
            ELSE attr_supported_color_modes[1] \ {COLOR_MODE_ONOFF}
    IN  IF Cardinality(color_modes) = 0
        THEN (IF /\ color_mode # NoColorMode
                 /\ color_mode # COLOR_MODE_UNKNOWN
                 /\ color_mode # COLOR_MODE_ONOFF
              THEN {color_mode}
              ELSE {COLOR_MODE_BRIGHTNESS})
        ELSE color_modes

\* The group computes its state from the states of its targets: whether any
\* is on, the color mode most of them have (UNKNOWN when none has one) and
\* the color modes any of them supports (None when none reports them).
GroupColorUpdate(on, mode, supported) ==
    /\ is_on' = on
    /\ attr_color_mode' = mode
    /\ attr_supported_color_modes' = supported
    /\ UNCHANGED <<entities, attr_brightness, prefered_brightness, is_frozen,
                   context, states, running, last, refresh, published,
                   commands, contexts, is_lightener_change>>

\* supported_color_modes is read: "super().supported_color_modes or set()"
\* is the set of the group itself unless that is None or empty, so that
\* discard() and add() change the set the group holds.
ReadSupportedColorModes ==
    /\ attr_supported_color_modes \notin {<<>>, <<{}>>}
    /\ attr_supported_color_modes' = <<supported_color_modes>>
    /\ UNCHANGED <<lightenerVars, attr_color_mode>>

ColorInit ==
    /\ NoControlledLight
    /\ NoTranslation
    /\ NoHistory
    /\ NoColor
    /\ NoFlow
    /\ LightenerInit(<<>>)

ColorNext ==
    \/ /\ \E on \in BOOLEAN, mode \in ColorModes,
             supported \in OptionalColorModes :
                GroupColorUpdate(on, mode, supported)
       /\ UNCHANGED colorFrame
    \/ ReadSupportedColorModes /\ UNCHANGED colorFrame

ColorSpec == ColorInit /\ [][ColorNext]_vars

\* ------------------------------------------------------------------------
\* The configuration flows (config_flow.py) and the migration of the
\* configuration (__init__.py).

\* A text is the sequence of its characters; "x" stands for any character
\* that is neither a digit, a colon, a space nor a line break.
Chars == {"0", "1", ":", " ", "x", "\n"}

\* The lines the sample texts of several lines are made of.
SampleLines ==
    { <<"1", ":", "0">>,
      <<"1", ":", "1">>,
      <<"1", "0", ":", "1">>,
      <<" ", "1", " ", ":", " ", "1", " ">>,
      <<"1", "0", "1", ":", "1">>,
      <<"1", ":", "1", "0", "1">>,
      <<"0", ":", "1">>,
      <<"1", ":", "0", "x">> }

\* "\n".join(lines)
RECURSIVE join(_)
join(lines) ==
    IF lines = <<>> THEN <<>>
    ELSE IF Len(lines) = 1 THEN lines[1]
    ELSE lines[1] \o <<"\n">> \o join(Tail(lines))

\* The brightness texts submitted to the validation: every text of at most
\* MaxText characters and every text of 2..MaxLines sample lines.
Texts ==
    UNION {[1..n -> Chars] : n \in 0..MaxText}
        \cup {join(lines) : lines \in UNION {[1..n -> SampleLines] : n \in 2..MaxLines}}

\* The names, the lights and the brightness texts given to the flows.
FlowNames == {"Test Name"}

FlowLights == {"light.test1", "light.test2"}

Selections ==
    { <<>>,
      <<"light.test1">>,
      <<"light.test2">>,
      <<"light.test1", "light.test2">>,
      <<"light.test2", "light.test1">> }

FlowTexts ==
    { <<>>,
      <<"1", ":", "0">>,
      <<"1", "0", ":", "1">>,
      <<"1", ":", "x">> }

\* hass.states.get(light).name
LightName(light) ==
    CASE light = "light.test1" -> "test1"
      [] light = "light.test2" -> "test2"

\* LightenerConfigFlow.VERSION
VERSION == 2

\* list(dict.keys()), key in dict and dict[key].
KeyList(dict) == [i \in 1..Len(dict) |-> dict[i][1]]

DictHas(dict, key) == \E i \in 1..Len(dict) : dict[i][1] = key

DictGet(dict, key) == dict[CHOOSE i \in 1..Len(dict) : dict[i][1] = key][2]

\* str.splitlines(): a line ends at a line break or at the end of the text;
\* no line follows the last line break of the text.
RECURSIVE splitlines(_)
splitlines(text) ==
    IF text = <<>> THEN <<>>
    ELSE IF \E i \in 1..Len(text) : text[i] = "\n"
    THEN LET break == CHOOSE i \in 1..Len(text) :
                        /\ text[i] = "\n"
                        /\ \A j \in 1..(i - 1) : text[j] # "\n"
         IN  <<SubSeq(text, 1, break - 1)>>
                \o splitlines(SubSeq(text, break + 1, Len(text)))
    ELSE <<text>>

\* The characters \d and \s match.
DigitChars == <<"0", "1", "2", "3", "4", "5", "6", "7", "8", "9">>

IsDigit(char) == \E d \in 1..10 : DigitChars[d] = char

IsSpace(char) == char \in {" ", "\n"}

\* The regular expression ^\s*(\d+)\s*:\s*(\d+)\s*$ as an automaton: the
\* place reached in the expression after reading char at place.
RegexFail == -1

RegexStep(place, char) ==
    CASE place = 0 /\ IsSpace(char) -> 0
      [] place = 0 /\ IsDigit(char) -> 1
      [] place = 1 /\ IsDigit(char) -> 1
      [] place = 1 /\ IsSpace(char) -> 2
      [] place = 1 /\ char = ":" -> 3
      [] place = 2 /\ IsSpace(char) -> 2
      [] place = 2 /\ char = ":" -> 3
      [] place = 3 /\ IsSpace(char) -> 3
      [] place = 3 /\ IsDigit(char) -> 4
      [] place = 4 /\ IsDigit(char) -> 4
      [] place = 4 /\ IsSpace(char) -> 5
      [] place = 5 /\ IsSpace(char) -> 5
      [] OTHER -> RegexFail

RECURSIVE RegexRun(_, _, _)
RegexRun(entry, i, place) ==
    IF place = RegexFail THEN RegexFail
    ELSE IF i > Len(entry) THEN place
    ELSE RegexRun(entry, i + 1, RegexStep(place, entry[i]))

\* re.fullmatch(r"^\s*(\d+)\s*:\s*(\d+)\s*$", entry): Missing when the entry
\* does not match, else the two groups.
fullmatch(entry) ==
    IF RegexRun(entry, 1, 0) \notin {4, 5} THEN Missing
    ELSE LET colon == CHOOSE i \in 1..Len(entry) : entry[i] = ":"
         IN  << SelectSeq(SubSeq(entry, 1, colon - 1), IsDigit),
                SelectSeq(SubSeq(entry, colon + 1, Len(entry)), IsDigit) >>

\* int(digits)
RECURSIVE int(_)
int(digits) ==
    IF digits = <<>> THEN 0
    ELSE LET last_digit == digits[Len(digits)]
             value == (CHOOSE d \in 1..10 : DigitChars[d] = last_digit) - 1
         IN  int(SubSeq(digits, 1, Len(digits) - 1)) * 10 + value

\* str(number)
RECURSIVE str(_)
str(number) ==
    IF number < 10 THEN <<DigitChars[number + 1]>>
    ELSE str(number \div 10) \o <<DigitChars[(number % 10) + 1]>>

\* The range check of an entry that accepts every right number.
InRange_unbounded(left, right) == left >= 1 /\ left <= 100

\* left >= 1 and left <= 100 and right <= 100
InRange(left, right) == left >= 1 /\ left <= 100 /\ right <= 100

\* The loop over the lines of user_input["brightness"]: the errors, the
\* error_entry placeholder and the brightness dict when it ends.
RECURSIVE ParseEntries(_, _)
ParseEntries(entries, parsed) ==
    IF entries = <<>>
    THEN [errors |-> {}, error_entry |-> Missing, brightness |-> parsed]
    ELSE LET entry == Head(entries)
             match == fullmatch(entry)
         IN  IF match # Missing /\ InRange(int(match[1]), int(match[2]))
             THEN ParseEntries(Tail(entries),
                               DictSet(parsed, str(int(match[1])),
                                       str(int(match[2]))))
             ELSE [errors |-> {<<"brightness", "invalid_brightness">>},
                   error_entry |-> <<entry>>,
                   brightness |-> parsed]

\* The validation that drops the error and keeps the entries read so far.
ParseBrightness_lenient(text) ==
    [ParseEntries(splitlines(text), EmptyDict) EXCEPT
        !.errors = {}, !.error_entry = Missing]

ParseBrightness(text) == ParseEntries(splitlines(text), EmptyDict)

\* The text suggested for a stored brightness dict: one "key: value" line
\* for each item.
RECURSIVE FormatItems(_)
FormatItems(brightness) ==
    IF brightness = <<>> THEN <<>>
    ELSE <<brightness[1][1] \o <<":", " ">> \o brightness[1][2]>>
            \o FormatItems(Tail(brightness))

\* The lines joined with a space instead of a line break.
FormatBrightness_spaced(brightness) ==
    LET items == FormatItems(brightness)
        spaced[n \in 0..Len(items)] ==
            IF n = 0 THEN <<>>
            ELSE IF n = 1 THEN items[1]
            ELSE spaced[n - 1] \o <<" ">> \o items[n]
    IN  spaced[Len(items)]

FormatBrightness(brightness) == join(FormatItems(brightness))

\* self.steps.get(step, step)
StepId(handler, step) ==
    IF handler = "config" /\ step = "name" THEN "user"
    ELSE IF handler = "options" /\ step = "lights" THEN "init"
    ELSE step

\* FlowHandler.async_show_form
Form(step_id, last_step, errors, placeholders, default, suggested_value) ==
    [type |-> "form", step_id |-> step_id, last_step |-> last_step,
     errors |-> errors, description_placeholders |-> placeholders,
     default |-> default, suggested_value |-> suggested_value,
     title |-> Missing, data |-> EmptyData]

\* FlowHandler.async_create_entry
CreateEntry(title, data) ==
    [NoResult EXCEPT !.type = "create_entry", !.title = title, !.data = data]

\* The lights of the entry being configured: none in a config flow.
ConfiguredLights(handler) ==
    IF handler = "options" /\ config_entry[1].data.entities # Missing
    THEN KeyList(config_entry[1].data.entities[1])
    ELSE <<>>

\* The form of the lights step.
LightsForm(handler, controlled_entities, errors) ==
    Form(StepId(handler, "lights"), FALSE, errors,
         [light_name |-> Missing, error_entry |-> Missing],
         <<controlled_entities>>, Missing)

\* The brightness stored in the entry for a light, as the options flow
\* suggests it; the empty text in a config flow.
StoredBrightness(handler, light) ==
    IF handler # "options" THEN <<>>
    ELSE LET stored == config_entry[1].data.entities
         IN  IF stored = Missing THEN <<>>
             ELSE IF ~DictHas(stored[1], light) THEN <<>>
             ELSE IF DictGet(stored[1], light).brightness = Missing THEN <<>>
             ELSE FormatBrightness(DictGet(stored[1], light).brightness[1])

\* last_step of a light_configuration form that is never true.
LastStep_never(controlled_entities) == FALSE

\* last_step=len(controlled_entities) == 0
LastStep(controlled_entities) == Len(controlled_entities) = 0

\* The form of the light_configuration step.
LightConfigurationForm(handler, light, remaining, errors, entry, value) ==
    Form(StepId(handler, "light_configuration"),
         LastStep(remaining), errors,
         [light_name |-> <<LightName(light)>>, error_entry |-> entry],
         Missing, <<value>>)

\* entities[entity] = {} for every selected light, in a new dict.
RECURSIVE NewEntities(_)
NewEntities(selection) ==
    IF selection = <<>> THEN EmptyDict
    ELSE DictSet(NewEntities(SubSeq(selection, 1, Len(selection) - 1)),
                 selection[Len(selection)], [brightness |-> Missing])

\* A config flow is started: LightenerConfigFlow.__init__ and
\* async_step_user without input show the name form.
ConfigFlowInit ==
    /\ flow_handler = "none"
    /\ config_entry = Missing
    /\ flow_handler' = "config"
    /\ flow_data' = EmptyData
    /\ local_data' = NoLocalData
    /\ flow_result' = Form(StepId("config", "name"), FALSE, {},
                           [light_name |-> Missing, error_entry |-> Missing],
                           Missing, Missing)
    /\ user_selection' = Missing
    /\ user_text' = Missing
    /\ UNCHANGED <<config_entry, migrated>>

\* An options flow is started on the entry: LightenerOptionsFlow.__init__
\* and async_step_init without input show the lights form.
OptionsFlowInit ==
    /\ flow_handler = "none"
    /\ config_entry # Missing
    /\ config_entry[1].version = VERSION
    /\ flow_handler' = "options"
    /\ flow_data' = config_entry[1].data
    /\ local_data' = NoLocalData
    /\ flow_result' = LightsForm("options", ConfiguredLights("options"), {})
    /\ user_selection' = Missing
    /\ user_text' = Missing
    /\ UNCHANGED <<config_entry, migrated>>

\* The name is submitted: async_step_name stores it and shows the lights form.
StepName(name) ==
    /\ flow_result.type = "form"
    /\ flow_result.step_id = StepId(flow_handler, "name")
    /\ flow_handler = "config"
    /\ flow_data' = [flow_data EXCEPT !.friendly_name = <<name>>]
    /\ flow_result' = LightsForm(flow_handler, ConfiguredLights(flow_handler), {})
    /\ UNCHANGED <<config_entry, flow_handler, local_data, user_selection,
                   user_text, migrated>>

\* The selection of lights is submitted: async_step_lights shows the same
\* form again for an empty selection, and else starts the entities anew and
\* shows the form of the first light.
StepLights(selection) ==
    /\ flow_result.type = "form"
    /\ flow_result.step_id = StepId(flow_handler, "lights")
    /\ user_selection' = <<selection>>
    /\ IF Len(selection) = 0
       THEN /\ local_data' =
                    [local_data EXCEPT !.controlled_entities = <<selection>>]
            /\ flow_result' =
                    LightsForm(flow_handler, selection,
                               {<<"controlled_entities",
                                  "controlled_entities_empty">>})
            /\ UNCHANGED flow_data
       ELSE /\ flow_data' =
                    [flow_data EXCEPT !.entities = <<NewEntities(selection)>>]
            /\ local_data' = [controlled_entities |-> <<Tail(selection)>>,
                              current_light |-> <<Head(selection)>>]
            /\ flow_result' =
                    LightConfigurationForm(
                        flow_handler, Head(selection), Tail(selection), {},
                        Missing, StoredBrightness(flow_handler, Head(selection)))
    /\ UNCHANGED <<config_entry, flow_handler, user_text, migrated>>

\* async_save_data storing the lights of the flow after those of the entry.
SaveData_merging(data) ==
    /\ IF flow_handler = "config"
       THEN /\ flow_result' = CreateEntry(data.friendly_name, data)
            /\ config_entry' = <<[version |-> VERSION,
                                  title |-> data.friendly_name,
                                  data |-> data,
                                  options |-> EmptyDict]>>
       ELSE /\ config_entry' =
                <<[config_entry[1] EXCEPT
                    !.data = [data EXCEPT !.entities =
                        <<(IF config_entry[1].data.entities = Missing
                           THEN <<>>
                           ELSE SelectSeq(config_entry[1].data.entities[1],
                                    LAMBDA item :
                                        ~DictHas(data.entities[1], item[1])))
                          \o data.entities[1]>>]]>>
            /\ flow_result' = CreateEntry(<<"">>, EmptyData)
    /\ flow_handler' = "none"
    /\ flow_data' = EmptyData
    /\ local_data' = NoLocalData

\* async_save_data: a config flow creates the entry from its data; an
\* options flow updates the data of the entry, with the options it has, and
\* ends with an empty result. The flow is over.
SaveData(data) ==
    /\ IF flow_handler = "config"
       THEN /\ flow_result' = CreateEntry(data.friendly_name, data)
            /\ config_entry' = <<[version |-> VERSION,
                                  title |-> data.friendly_name,
                                  data |-> data,
                                  options |-> EmptyDict]>>
       ELSE /\ config_entry' =
                <<[config_entry[1] EXCEPT
                    !.data = data, !.options = config_entry[1].options]>>
            /\ flow_result' = CreateEntry(<<"">>, EmptyData)
    /\ flow_handler' = "none"
    /\ flow_data' = EmptyData
    /\ local_data' = NoLocalData

\* The brightness text of the current light is submitted:
\* async_step_light_configuration shows the same form again with the error
\* when an entry is invalid, and else stores the brightness and shows the
\* form of the next light or, after the last one, saves the data.
StepLightConfiguration(text) ==
    /\ flow_result.type = "form"
    /\ flow_result.step_id = StepId(flow_handler, "light_configuration")
    /\ user_text' = <<text>>
    /\ LET parsed == ParseBrightness(text)
           light == local_data.current_light[1]
           controlled_entities == local_data.controlled_entities[1]
       IN  IF parsed.errors = {}
           THEN LET data == [flow_data EXCEPT !.entities =
                                <<DictSet(flow_data.entities[1], light,
                                    [brightness |-> <<parsed.brightness>>])>>]
                IN  IF Len(controlled_entities) # 0
                    THEN /\ flow_data' = data
                         /\ local_data' =
                                [controlled_entities |->
                                    <<Tail(controlled_entities)>>,
                                 current_light |->
                                    <<Head(controlled_entities)>>]
                         /\ flow_result' =
                                LightConfigurationForm(
                                    flow_handler, Head(controlled_entities),
                                    Tail(controlled_entities), {}, Missing,
                                    StoredBrightness(flow_handler,
                                                     Head(controlled_entities)))
                         /\ UNCHANGED <<config_entry, flow_handler>>
                    ELSE SaveData(data)
           ELSE /\ flow_result' =
                        LightConfigurationForm(
                            flow_handler, light, controlled_entities,
                            parsed.errors, parsed.error_entry, text)
                /\ UNCHANGED <<config_entry, flow_handler, flow_data,
                               local_data>>
    /\ UNCHANGED <<user_selection, migrated>>

FlowInit ==
    /\ NoControlledLight
    /\ NoTranslation
    /\ NoHistory
    /\ NoColor
    /\ NoFlow
    /\ LightenerInit(<<>>)

FlowNext ==
    \/ ConfigFlowInit /\ UNCHANGED flowFrame
    \/ OptionsFlowInit /\ UNCHANGED flowFrame
    \/ /\ \E name \in FlowNames : StepName(name)
       /\ UNCHANGED flowFrame
    \/ /\ \E selection \in Selections : StepLights(selection)
       /\ UNCHANGED flowFrame
    \/ /\ \E text \in FlowTexts : StepLightConfiguration(text)
       /\ UNCHANGED flowFrame

FlowSpec == FlowInit /\ [][FlowNext]_vars

\* One light is configured in a config flow and one brightness text, any of
\* Texts, is submitted for it.
ValidationNext ==
    \/ ConfigFlowInit /\ UNCHANGED flowFrame
    \/ /\ \E name \in FlowNames : StepName(name)
       /\ UNCHANGED flowFrame
    \/ StepLights(<<"light.test1">>) /\ UNCHANGED flowFrame
    \/ /\ user_text = Missing
       /\ \E text \in Texts : StepLightConfiguration(text)
       /\ UNCHANGED flowFrame

ValidationSpec == FlowInit /\ [][ValidationNext]_vars

\* ------------------------------------------------------------------------
\* A stored brightness shown by the options flow and submitted as shown.

\* The percent keys and values of the stored mappings, which have up to two
\* entries, written as the flow writes them: str(left), str(right).
StoredKeys == {1, 7, 10, 100}
StoredValues == {0, 5, 10, 100}

StoredMappings ==
    {EmptyDict}
        \cup {<<<<str(k), str(v)>>>> : k \in StoredKeys, v \in StoredValues}
        \cup UNION {{<<<<str(k1), str(v1)>>, <<str(k2), str(v2)>>>> :
                        k2 \in StoredKeys \ {k1},
                        v1 \in StoredValues, v2 \in StoredValues} :
                     k1 \in StoredKeys}

\* An entry of the current version with one light and its stored mapping.
RoundTripInit ==
    /\ NoControlledLight
    /\ NoTranslation
    /\ NoHistory
    /\ NoColor
    /\ LightenerInit(<<>>)
    /\ flow_handler = "none"
    /\ flow_data = EmptyData
    /\ local_data = NoLocalData
    /\ flow_result = NoResult
    /\ user_selection = Missing
    /\ user_text = Missing
    /\ migrated = Missing
    /\ \E stored \in StoredMappings :
            config_entry =
                <<[version |-> VERSION, title |-> <<"Test Name">>,
                   data |-> [friendly_name |-> <<"Test Name">>,
                             entities |-> <<<<<<"light.test1",
                                [brightness |-> <<stored>>]>>>>>>],
                   options |-> EmptyDict]>>

\* The options flow of the entry: the light is selected again and the text
\* the form suggests is submitted as it is.
RoundTripNext ==
    \/ OptionsFlowInit /\ UNCHANGED flowFrame
    \/ StepLights(<<"light.test1">>) /\ UNCHANGED flowFrame
    \/ /\ flow_result.suggested_value # Missing
       /\ StepLightConfiguration(flow_result.suggested_value[1])
       /\ UNCHANGED flowFrame

RoundTripSpec == RoundTripInit /\ [][RoundTripNext]_vars

\* async_migrate_data that does not copy friendly_name.
async_migrate_data_unnamed(data, version) ==
    IF version = None \/ version = 1
    THEN [friendly_name |-> Missing,
          entities |->
            <<(IF data.entities = Missing THEN EmptyDict
               ELSE [i \in 1..Len(data.entities[1]) |->
                        <<data.entities[1][i][1],
                          [brightness |-> <<data.entities[1][i][2]>>]>>])>>]
    ELSE data

\* async_migrate_data: each light's brightness dict is put under the key
\* "brightness"; friendly_name is copied when there is one.
async_migrate_data(data, version) ==
    IF version = None \/ version = 1
    THEN [friendly_name |-> data.friendly_name,
          entities |->
            <<(IF data.entities = Missing THEN EmptyDict
               ELSE [i \in 1..Len(data.entities[1]) |->
                        <<data.entities[1][i][1],
                          [brightness |-> <<data.entities[1][i][2]>>]>>])>>]
    ELSE data

\* async_migrate_entry
MigrateEntry ==
    /\ config_entry # Missing
    /\ migrated = Missing
    /\ LET version == config_entry[1].version
       IN  IF version = None \/ version = 1
           THEN /\ config_entry' =
                    <<[config_entry[1] EXCEPT
                        !.data = async_migrate_data(config_entry[1].data,
                                                    version),
                        !.version = 2]>>
                /\ migrated' = <<TRUE>>
           ELSE IF version = VERSION
           THEN /\ migrated' = <<TRUE>>
                /\ UNCHANGED config_entry
           ELSE /\ migrated' = <<FALSE>>
                /\ UNCHANGED config_entry
    /\ UNCHANGED <<flow_handler, flow_data, local_data, flow_result,
                   user_selection, user_text>>

\* The brightness dicts of the entries that are migrated.
SampleMappings ==
    { EmptyDict,
      << <<<<"1", "0">>, <<"2", "0">>>> >>,
      << <<<<"5", "0">>, <<"6", "0">>>>, <<<<"7", "0">>, <<"8", "0">>>> >> }

\* The versions of the entries that are migrated: none, 1, the current one
\* and one that is unknown.
EntryVersions == {None, 1, VERSION, 1000}

\* The entities of an entry of version 1 or of no version: each light has
\* its brightness dict.
LegacyEntities ==
    {EmptyDict}
        \cup {<<<<"light.test1", m1>>>> : m1 \in SampleMappings}
        \cup {<<<<"light.test1", m1>>, <<"light.test2", m2>>>> :
                m1 \in SampleMappings, m2 \in SampleMappings}

\* The entities of an entry of version 2: each light has its brightness
\* dict under the key "brightness".
CurrentEntities ==
    {EmptyDict}
        \cup {<<<<"light.test1", [brightness |-> <<m1>>]>>>> :
                m1 \in SampleMappings}
        \cup {<<<<"light.test1", [brightness |-> <<m1>>]>>,
                <<"light.test2", [brightness |-> <<m2>>]>>>> :
                m1 \in SampleMappings, m2 \in SampleMappings}

\* The entry HA hands to async_migrate_entry.
MigrateInit ==
    /\ NoControlledLight
    /\ NoTranslation
    /\ NoHistory
    /\ NoColor
    /\ LightenerInit(<<>>)
    /\ flow_handler = "none"
    /\ flow_data = EmptyData
    /\ local_data = NoLocalData
    /\ flow_result = NoResult
    /\ user_selection = Missing
    /\ user_text = Missing
    /\ migrated = Missing
    /\ \E version \in EntryVersions, name \in {Missing, <<"Test">>} :
        \/ /\ version \in {None, 1}
           /\ \E stored \in {Missing} \cup {<<e>> : e \in LegacyEntities} :
                config_entry =
                    <<[version |-> version, title |-> <<"lightener">>,
                       data |-> [friendly_name |-> name, entities |-> stored],
                       options |-> EmptyDict]>>
        \/ /\ version \notin {None, 1}
           /\ \E stored \in {Missing} \cup {<<e>> : e \in CurrentEntities} :
                config_entry =
                    <<[version |-> version, title |-> <<"lightener">>,
                       data |-> [friendly_name |-> name, entities |-> stored],
                       options |-> EmptyDict]>>

MigrateNext == MigrateEntry /\ UNCHANGED flowFrame

MigrateSpec == MigrateInit /\ [][MigrateNext]_vars

\* ------------------------------------------------------------------------
\* Properties of the brightness maps (MapSpec).

\* The consecutive breakpoint pairs of the prepared configuration.
Segments == 1..(Len(brightness_config) - 1)
V0(n) == brightness_config[n][1]
P0(n) == brightness_config[n][2]
V1(n) == brightness_config[n + 1][1]
P1(n) == brightness_config[n + 1][2]

Abs(x) == IF x < 0 THEN 0 - x ELSE x

\* j lies between p0 and p1 of segment n, inclusive.
Between(j, n) == Min(P0(n), P1(n)) <= j /\ j <= Max(P0(n), P1(n))

\* y is the rational num / den (den > 0) rounded half to even.
IsRoundHalfEven(y, num, den) ==
    /\ 2 * Abs(y * den - num) <= den
    /\ 2 * Abs(y * den - num) = den => y % 2 = 0

\* Some segment of the configuration descends.
NonMonotonic == \E n \in Segments : P0(n) > P1(n)

\* C2: for every configuration the forward map has exactly the 256 keys
\* 0..255 and every value is an integer in 0..255.
ForwardTotal ==
    /\ DOMAIN levels = Levels
    /\ \A i \in DOMAIN levels : levels[i] \in Levels

\* A configured light whose forward map is not the identity.
ForwardTotalWitness ==
    /\ Len(config_brightness) >= 2
    /\ DOMAIN levels = Levels
    /\ \E i \in Levels : levels[i] # i

\* C3: Forward(0) = 0, and Forward(v) = p exactly for every breakpoint
\* (v, p) of the prepared configuration.
AnchorAndBoundary ==
    /\ levels[0] = 0
    /\ \A n \in 1..Len(brightness_config) :
            levels[brightness_config[n][1]] = brightness_config[n][2]

\* A breakpoint strictly inside the range, off the diagonal, between two
\* segments of which neither slope is an integer.
AnchorAndBoundaryWitness ==
    \E n \in Segments :
        /\ n + 1 \in Segments
        /\ V1(n) # P1(n)
        /\ (P1(n) - P0(n)) % (V1(n) - V0(n)) # 0
        /\ levels[V1(n)] = P1(n)

\* C4: on every segment (v0,p0)-(v1,p1) and for every i in (v0, v1],
\* Forward(i) is p0 + (p1 - p0) * (i - v0) / (v1 - v0) rounded half to even,
\* so it is less than 1 away from the exact value, and a segment with
\* p0 = p1 maps to the constant p0.
ForwardInterpolation ==
    \A n \in Segments :
        \A i \in (V0(n) + 1)..V1(n) :
            LET den == V1(n) - V0(n)
                num == P0(n) * den + (P1(n) - P0(n)) * (i - V0(n))
            IN  /\ IsRoundHalfEven(levels[i], num, den)
                /\ Abs(levels[i] * den - num) < den
                /\ P0(n) = P1(n) => levels[i] = P0(n)

\* An interpolated level falls exactly half way and is rounded down to the
\* even neighbour.
ForwardInterpolationWitness ==
    \E n \in Segments :
        \E i \in (V0(n) + 1)..V1(n) :
            LET den == V1(n) - V0(n)
                num == P0(n) * den + (P1(n) - P0(n)) * (i - V0(n))
            IN  /\ 2 * (num % den) = den
                /\ levels[i] = num \div den

\* C5: for every configuration, monotonic or not, and every virtual level v,
\* v is an element of Backward(Forward(v)).
RoundTripMembership ==
    \A v \in Levels : InList(v, to_lightener_levels[levels[v]])

\* A non-monotonic configuration with a flat segment, where a physical level
\* is produced by a virtual level that no walk of a segment yields.
RoundTripMembershipWitness ==
    /\ NonMonotonic
    /\ \E n \in Segments : P0(n) = P1(n) /\ V1(n) - V0(n) > 1
    /\ \A v \in Levels : InList(v, to_lightener_levels[levels[v]])

\* The largest physical level among the prepared breakpoints.
MaxPhysical ==
    CHOOSE p \in {brightness_config[n][2] : n \in 1..Len(brightness_config)} :
        \A n \in 1..Len(brightness_config) : brightness_config[n][2] <= p

\* C6 as claimed: Backward(j) is a non-empty list for every physical level j.
BackwardNeverEmpty ==
    \A j \in Levels :
        j \in DOMAIN to_lightener_levels /\ Len(to_lightener_levels[j]) > 0

\* C6 amended: Backward(j) is defined for every j in 0..255, and it is
\* non-empty exactly when j is at most the largest physical level among the
\* prepared breakpoints.
BackwardTotal ==
    /\ DOMAIN to_lightener_levels = Levels
    /\ \A j \in Levels : (Len(to_lightener_levels[j]) > 0) <=> (j <= MaxPhysical)

\* A steep segment, whose gaps the walk fills, below a maximum under 255.
BackwardTotalWitness ==
    /\ MaxPhysical < 255
    /\ \E n \in Segments : Abs(P1(n) - P0(n)) > V1(n) - V0(n)
    /\ Len(to_lightener_levels[MaxPhysical]) > 0
    /\ Len(to_lightener_levels[MaxPhysical + 1]) = 0

\* v is the integer nearest to the inverse interpolation of physical level j
\* on segment n.
NearestInverse(v, j, n) ==
    /\ P0(n) # P1(n)
    /\ Between(j, n)
    /\ 2 * Abs((v - V0(n)) * (P1(n) - P0(n)) - (j - P0(n)) * (V1(n) - V0(n)))
            <= Abs(P1(n) - P0(n))

\* C7 as claimed: every virtual level listed for physical level j produces j.
BackwardSound ==
    \A j \in Levels :
        \A n \in 1..Len(to_lightener_levels[j]) :
            levels[to_lightener_levels[j][n]] = j

\* C7 amended: every virtual level v listed for physical level j produces j,
\* or it is the level nearest to the inverse interpolation of j on a segment
\* steeper than one physical level per virtual level.
BackwardSoundOrNearest ==
    \A j \in Levels :
        \A n \in 1..Len(to_lightener_levels[j]) :
            LET v == to_lightener_levels[j][n]
            IN  \/ levels[v] = j
                \/ \E m \in Segments :
                        /\ Abs(P1(m) - P0(m)) > V1(m) - V0(m)
                        /\ NearestInverse(v, j, m)

\* A listed level that does not produce its physical level, next to one that
\* does.
BackwardSoundOrNearestWitness ==
    \E j \in Levels :
        /\ \E n \in 1..Len(to_lightener_levels[j]) :
                levels[to_lightener_levels[j][n]] # j
        /\ \E n \in 1..Len(to_lightener_levels[j]) :
                levels[to_lightener_levels[j][n]] = j

RECURSIVE ExpectedWalk(_, _, _)
\* The levels the segments n, n+1, ... add to a list for physical level j:
\* for each segment with p0 # p1 and j between p0 and p1, the rounded
\* inverse interpolation when not yet listed.
ExpectedWalk(list, j, n) ==
    IF n \notin Segments THEN list
    ELSE LET x == round(V0(n) * (P1(n) - P0(n)) + (j - P0(n)) * (V1(n) - V0(n)),
                        P1(n) - P0(n))
         IN  ExpectedWalk(
                IF P0(n) # P1(n) /\ Between(j, n) /\ ~InList(x, list)
                THEN Append(list, x) ELSE list,
                j, n + 1)

\* C8: Backward(j) is exactly the virtual levels v with Forward(v) = j in
\* ascending order, followed, for each segment in order with p0 # p1 and j
\* between p0 and p1, by the rounded inverse interpolation of j when not
\* already listed.  (A level added by a walk was not listed before, so it
\* does not produce j: the list splits into its levels that produce j and
\* those that do not.)
BackwardConstruction ==
    \A j \in Levels :
        LET list == to_lightener_levels[j]
            produce == SelectSeq(list, LAMBDA v : levels[v] = j)
            others == SelectSeq(list, LAMBDA v : levels[v] # j)
        IN  /\ list = produce \o others
            /\ \A n \in 1..(Len(produce) - 1) : produce[n] < produce[n + 1]
            /\ list = ExpectedWalk(produce, j, 1)
            /\ \A v \in Levels : levels[v] = j => InList(v, produce)

\* A physical level listed with levels that produce it and with two levels
\* added by the walks of two different segments.
BackwardConstructionWitness ==
    \E j \in Levels :
        LET list == to_lightener_levels[j]
        IN  /\ Len(SelectSeq(list, LAMBDA v : levels[v] = j)) >= 1
            /\ Len(SelectSeq(list, LAMBDA v : levels[v] # j)) >= 2

\* C9: Backward(j) lists no virtual level twice and only integers in 0..255.
BackwardNoDuplicates ==
    \A j \in Levels :
        LET list == to_lightener_levels[j]
        IN  /\ \A n \in 1..Len(list) : list[n] \in Levels
            /\ \A n, m \in 1..Len(list) : list[n] = list[m] => n = m

\* A walk reaches a level that is already listed for the physical level.
BackwardNoDuplicatesWitness ==
    /\ Len(config_brightness) >= 1
    /\ \E n \in Segments :
            /\ P0(n) # P1(n)
            /\ InList(V1(n), to_lightener_levels[P1(n)])
            /\ Len(to_lightener_levels[P1(n)]) >= 2

\* The config with its entries in another order.
Reordered(cfg, perm) == [n \in 1..Len(cfg) |-> cfg[perm[n]]]

\* C10: the prepared configuration has strictly increasing virtual levels,
\* at least 2 pairs, first pair (0,0), last virtual level 255 (physical 255
\* unless percent key 100 is configured), all levels and values in 0..255,
\* and is the same whatever the order of the input entries.
PreparedShape ==
    LET n == Len(brightness_config)
    IN  /\ n >= 2
        /\ brightness_config[1] = <<0, 0>>
        /\ brightness_config[n][1] = 255
        /\ 100 \notin DictKeys(config_brightness) => brightness_config[n][2] = 255
        /\ \A i \in 1..(n - 1) :
                brightness_config[i][1] < brightness_config[i + 1][1]
        /\ \A i \in 1..n :
                brightness_config[i][1] \in Levels /\ brightness_config[i][2] \in Levels
        /\ \A perm \in Permutations(1..Len(config_brightness)) :
                prepare_brightness_config(Reordered(config_brightness, perm)) = brightness_config

\* A configuration entered out of order, with key 100 and without.
PreparedShapeWitness ==
    /\ Len(config_brightness) >= 2
    /\ config_brightness[1][1] > config_brightness[2][1]
    /\ 100 \notin DictKeys(config_brightness)
    /\ Len(brightness_config) = Len(config_brightness) + 2

\* ------------------------------------------------------------------------
\* Properties of the Lightener (Spec).

\* The targets for which the last command made a service call.
Attempted == {last.calls[n].entity_id : n \in 1..Len(last.calls)}

\* The state of a target is the one a command for the given Lightener
\* brightness asks of it.
InCommandedState(entity, brightness) ==
    LET state == states[entity.entity_id]
        entity_brightness ==
            IF brightness # None
            THEN translate_brightness(entity, brightness)
            ELSE None
    IN  IF entity_brightness = 0
        THEN state.state = "off"
        ELSE /\ state.state = "on"
             /\ (entity.type = TYPE_DIMMABLE /\ brightness # None)
                    => state.brightness = entity_brightness

\* C1: when the service call for one target raises during async_turn_on
\* over two or more targets, a service call is still attempted for every
\* other target, and those targets end up in the commanded state.
PartialFailureIsolation ==
    (last.pc = "raised" /\ Len(entities) >= 2) =>
        \A n \in 1..Len(entities) :
            entities[n].entity_id \notin last.failed =>
                /\ entities[n].entity_id \in Attempted
                /\ InCommandedState(entities[n], last.brightness)

\* ------------------------------------------------------------------------
\* Properties of the percent scaling (TranslateSpec).

\* The entry translate_config_to_brightness was called with, and the entry
\* it returned.
PercentKey == percent_config[1][1]
PercentValue == percent_config[1][2]
TranslatedKey == translated_config[1][1]
TranslatedValue == translated_config[1][2]

\* y is within one half of the rational num / den (den > 0).
IsNearest(y, num, den) == 2 * Abs(y * den - num) <= den

\* C11 as claimed: the percent key and every non-zero percent value x are
\* converted as round((255 - 1) * (x - 1) / (100 - 1) + 1), and value 0 as 0.
PercentScalingEndToEnd ==
    percent_config # <<>> =>
        /\ IsNearest(TranslatedKey, 254 * (PercentKey - 1) + 99, 99)
        /\ IF PercentValue = 0 THEN TranslatedValue = 0
           ELSE IsNearest(TranslatedValue, 254 * (PercentValue - 1) + 99, 99)

\* C11 amended: the percent key and every non-zero percent value x are
\* converted as round(255 * x / 100), rounding half to even, within 1..255,
\* and value 0 as 0.
PercentScaling ==
    percent_config # <<>> =>
        /\ Len(translated_config) = 1
        /\ TranslatedKey \in 1..255
        /\ IsRoundHalfEven(TranslatedKey, 255 * PercentKey, 100)
        /\ IF PercentValue = 0 THEN TranslatedValue = 0
           ELSE /\ TranslatedValue \in 1..255
                /\ IsRoundHalfEven(TranslatedValue, 255 * PercentValue, 100)

\* Percent 1 becomes 3, where the end-to-end scaling would give 1, next to a
\* value 0 that stays 0.
PercentScalingWitness ==
    /\ percent_config = <<<<1, 0>>>>
    /\ translated_config = <<<<3, 0>>>>

\* The levels the tests of the repository expect for some percents.
TestedLevels ==
    (1 :> 3) @@ (10 :> 26) @@ (20 :> 51) @@ (30 :> 76) @@ (50 :> 128)
        @@ (100 :> 255)

\* C12: translate_config_to_brightness maps 1, 10, 20, 30, 50, 100 to 3, 26,
\* 51, 76, 128, 255, as keys and as values, every key and non-zero value x
\* to round(255 * x / 100) and value 0 to 0; distinct percent keys give
\* distinct levels, key 100 gives 255 and no key gives 0.
PercentScalingAsTested ==
    percent_config # <<>> =>
        /\ PercentKey \in DOMAIN TestedLevels =>
                TranslatedKey = TestedLevels[PercentKey]
        /\ PercentValue \in DOMAIN TestedLevels =>
                TranslatedValue = TestedLevels[PercentValue]
        /\ 2 * Abs(100 * TranslatedKey - 255 * PercentKey) <= 100
        /\ PercentValue # 0 =>
                2 * Abs(100 * TranslatedValue - 255 * PercentValue) <= 100
        /\ PercentValue = 0 <=> TranslatedValue = 0
        /\ PercentKey = 100 <=> TranslatedKey = 255
        /\ TranslatedKey # 0
        /\ \A k \in PercentKeyRange \ {PercentKey} :
                translate_config_to_brightness(
                    <<<<k, PercentValue>>>>)[1][1] # TranslatedKey

\* The ties of the tested table: 30 goes down to 76 and 50 goes up to 128.
PercentScalingAsTestedWitness ==
    /\ percent_config = <<<<30, 50>>>>
    /\ translated_config = <<<<76, 128>>>>

\* ------------------------------------------------------------------------
\* Properties of the translations of a controlled light (MapSpec).

\* The controlled light held in the variables, as an on/off and as a
\* dimmable target.
OnOffLight == Target("light.test_onoff", config_brightness, TYPE_ONOFF)
DimmableLight == Target("light.test1", config_brightness, TYPE_DIMMABLE)

\* C13: for a target of type on/off and any configuration,
\* translate_brightness(v) is 0 when Forward(v) = 0 and 255 otherwise, for
\* every v in 0..255; it is never an intermediate value.
OnOffForward ==
    \A v \in Levels :
        /\ translate_brightness(OnOffLight, v) \in {0, 255}
        /\ translate_brightness(OnOffLight, v) = 0 <=> levels[v] = 0

\* A configuration that turns the light off at a level above 0 and has
\* intermediate forward values, which the on/off light gets as 255.
OnOffForwardWitness ==
    /\ \E v \in 1..255 : levels[v] = 0 /\ translate_brightness(OnOffLight, v) = 0
    /\ \E v \in 1..255 :
            /\ levels[v] \in 1..254
            /\ translate_brightness(OnOffLight, v) = 255
            /\ translate_brightness(DimmableLight, v) = levels[v]

\* C14: the on/off backward list of level 0 is Backward(0), and for every j
\* in 1..255 it is one and the same list: all virtual levels in 1..255 that
\* are not in Backward(0), in ascending order.
OnOffBackward ==
    /\ DOMAIN to_lightener_levels_on_off = Levels
    /\ to_lightener_levels_on_off[0] = to_lightener_levels[0]
    /\ LET on_levels == to_lightener_levels_on_off[1]
       IN  /\ \A j \in 1..255 : to_lightener_levels_on_off[j] = on_levels
           /\ \A n \in 1..(Len(on_levels) - 1) : on_levels[n] < on_levels[n + 1]
           /\ \A v \in Levels :
                InList(v, on_levels) <=>
                    (v >= 1 /\ ~InList(v, to_lightener_levels[0]))

\* A configuration that turns the light off at levels above 0, which are
\* missing from the "on" list.
OnOffBackwardWitness ==
    /\ \E n \in 1..Len(to_lightener_levels[0]) : to_lightener_levels[0][n] > 0
    /\ Len(to_lightener_levels_on_off[255]) < 255
    /\ Len(to_lightener_levels_on_off[255]) > 0

\* C15: translate_brightness_back(None) returns the empty list, for dimmable
\* and on/off targets alike: a target with unknown physical level gives no
\* candidate virtual level.
BackOfNoneIsEmpty ==
    /\ translate_brightness_back(DimmableLight, None) = <<>>
    /\ translate_brightness_back(OnOffLight, None) = <<>>

\* A configured light that has candidates for every known level it can
\* show, and none for an unknown level.
BackOfNoneIsEmptyWitness ==
    /\ Len(config_brightness) >= 1
    /\ translate_brightness_back(DimmableLight, None) = <<>>
    /\ translate_brightness_back(OnOffLight, None) = <<>>
    /\ translate_brightness_back(DimmableLight, 0) # <<>>
    /\ translate_brightness_back(OnOffLight, 255) # <<>>

\* C16: a controlled light with an empty brightness configuration has the
\* prepared breakpoints [(0, 0), (255, 255)], Forward(v) = v and
\* Backward(j) = [j] for every level in 0..255.
DefaultMapping ==
    config_brightness = <<>> =>
        /\ brightness_config = <<<<0, 0>>, <<255, 255>>>>
        /\ DOMAIN levels = Levels
        /\ DOMAIN to_lightener_levels = Levels
        /\ \A v \in Levels : levels[v] = v /\ to_lightener_levels[v] = <<v>>

\* The light built from the empty configuration.
DefaultMappingWitness ==
    /\ config_brightness = <<>>
    /\ levels[128] = 128
    /\ to_lightener_levels[128] = <<128>>
    /\ to_lightener_levels_on_off[0] = <<0>>

\* The configurations {"100": "0", "10": "10", "50": "100"} and
\* {"50": "100", "100": "0"}.
NonMonotonicExamples ==
    { <<<<100, 0>>, <<10, 10>>, <<50, 100>>>>,
      <<<<50, 100>>, <<100, 0>>>> }

\* C17: for the configurations {"100": "0", "10": "10", "50": "100"} and
\* {"50": "100", "100": "0"}, Forward(255) = 0 and Backward(0) contains both
\* 0 and 255, so some physical level has two or more virtual levels.
NonMonotonicMultiValued ==
    config_brightness \in NonMonotonicExamples =>
        /\ levels[255] = 0
        /\ InList(0, to_lightener_levels[0])
        /\ InList(255, to_lightener_levels[0])
        /\ \E j \in Levels : Len(to_lightener_levels[j]) >= 2

\* The light built from {"100": "0", "10": "10", "50": "100"}: it rises to
\* 255 at level 128 and falls back to 0 at level 255.
NonMonotonicMultiValuedWitness ==
    /\ config_brightness = <<<<100, 0>>, <<10, 10>>, <<50, 100>>>>
    /\ brightness_config = <<<<0, 0>>, <<26, 26>>, <<128, 255>>, <<255, 0>>>>
    /\ levels[255] = 0
    /\ InList(255, to_lightener_levels[0])

\* C18: the configuration {"10": "100"} gives Forward(0) = 0,
\* Forward(13) = 128, Forward(25) = 245, Forward(26) = 255 and
\* Forward(v) = 255 for every v in 27..255.
ExampleScenario ==
    config_brightness = <<<<10, 100>>>> =>
        /\ levels[0] = 0
        /\ levels[13] = 128
        /\ levels[25] = 245
        /\ levels[26] = 255
        /\ \A v \in 27..255 : levels[v] = 255

\* The light built from {"10": "100"}: virtual 26 to physical 255.
ExampleScenarioWitness ==
    /\ config_brightness = <<<<10, 100>>>>
    /\ brightness_config = <<<<0, 0>>, <<26, 255>>, <<255, 255>>>>
    /\ levels[13] = 128

\* The exact interpolated value of level i on segment n, as the fraction
\* ExactNum / ExactDen with ExactDen > 0.
ExactNum(i, n) == P0(n) * (V1(n) - V0(n)) + (P1(n) - P0(n)) * (i - V0(n))
ExactDen(n) == V1(n) - V0(n)

\* The ceiling and the floor of the exact interpolated value.
ExactCeiling(i, n) == 0 - ((0 - ExactNum(i, n)) \div ExactDen(n))
ExactFloor(i, n) == ExactNum(i, n) \div ExactDen(n)

\* C19 as claimed: every forward value that is not a configured breakpoint
\* is the ceiling of the exact interpolated value, and the breakpoint values
\* are used as they are.
CeilingRounding ==
    \A n \in Segments :
        /\ levels[V1(n)] = P1(n)
        /\ \A i \in (V0(n) + 1)..(V1(n) - 1) : levels[i] = ExactCeiling(i, n)

\* C19 amended: every forward value that is not a configured breakpoint is
\* the floor or the ceiling of the exact interpolated value, whichever is
\* nearer, and the even one of the two when they are equally near; the
\* breakpoint values are exact.
NearestRounding ==
    \A n \in Segments :
        /\ levels[V1(n)] = P1(n)
        /\ \A i \in (V0(n) + 1)..(V1(n) - 1) :
            LET remainder == ExactNum(i, n) % ExactDen(n)
            IN  IF 2 * remainder < ExactDen(n)
                THEN levels[i] = ExactFloor(i, n)
                ELSE IF 2 * remainder > ExactDen(n)
                THEN levels[i] = ExactCeiling(i, n)
                ELSE /\ levels[i] \in {ExactFloor(i, n), ExactCeiling(i, n)}
                     /\ levels[i] % 2 = 0

\* A light with a value rounded down, a value rounded up and a tie rounded
\* down to the even neighbour.
NearestRoundingWitness ==
    \E n \in Segments :
        /\ \E i \in (V0(n) + 1)..(V1(n) - 1) :
                /\ levels[i] = ExactFloor(i, n)
                /\ levels[i] # ExactCeiling(i, n)
                /\ 2 * (ExactNum(i, n) % ExactDen(n)) < ExactDen(n)
        /\ \E i \in (V0(n) + 1)..(V1(n) - 1) :
                /\ levels[i] = ExactCeiling(i, n)
                /\ levels[i] # ExactFloor(i, n)
        /\ \E i \in (V0(n) + 1)..(V1(n) - 1) :
                /\ 2 * (ExactNum(i, n) % ExactDen(n)) = ExactDen(n)
                /\ levels[i] = ExactFloor(i, n)

\* ------------------------------------------------------------------------
\* Properties of the contexts (Spec).

\* The service call a step of async_turn_on has just made: the last one of
\* the command in progress, or of the command that has just raised.
CallMade ==
    /\ running.pc = "turn_on"
    /\ \/ /\ running'.pc = "turn_on"
          /\ Len(running'.calls) = Len(running.calls) + 1
       \/ /\ running'.pc = "idle"
          /\ last'.pc = "raised"

LastCallMade ==
    IF running'.pc = "turn_on"
    THEN running'.calls[Len(running'.calls)]
    ELSE last'.calls[Len(last'.calls)]

\* A step in which the group has handled a notification or a refresh and
\* has updated its state.
GroupUpdated == refresh' = refresh - 1 /\ ~is_frozen

\* Some configured target has a state written under the context of the
\* Lightener.
EchoOfLightener ==
    /\ context # None
    /\ \E n \in 1..Len(entities) :
            states[entities[n].entity_id].context = context

\* C20: every service call async_turn_on makes carries the context of the
\* Lightener; when the group is on, async_update_group_state classifies the
\* update as caused by the Lightener exactly when some configured target
\* has a state whose context is that context; and the update makes no
\* service call: the targets, the command in progress and the calls made
\* stay as they are.
EchoTagging ==
    [][ /\ CallMade => LastCallMade.context = context
        /\ (GroupUpdated /\ is_on') =>
                (is_lightener_change' <=> EchoOfLightener)
        /\ refresh' = refresh - 1 => UNCHANGED <<states, running, last>>
      ]_vars

\* A command received through the service has returned and was refreshed:
\* its calls carry the context of the Lightener and the update was
\* classified as caused by the Lightener.
EchoTaggingWitness ==
    /\ last.pc = "returned"
    /\ refresh = 0
    /\ is_on
    /\ is_lightener_change
    /\ context # None
    /\ \A n \in 1..Len(last.calls) : last.calls[n].context = context

\* ------------------------------------------------------------------------
\* Properties of the commands (Spec).

\* The call is the one the dispatch rule gives for the entity, when the
\* command was given the forwarded attributes data and its effective
\* brightness is level.
Dispatched(call, entity, data, level) ==
    /\ call.entity_id = entity.entity_id
    /\ IF level # None /\ translate_brightness(entity, level) = 0
       THEN /\ call.service = "turn_off"
            /\ call.brightness = None
            /\ call.color_temp_kelvin = None
            /\ call.transition = data.transition
       ELSE /\ call.service = "turn_on"
            /\ call.color_temp_kelvin = data.color_temp_kelvin
            /\ call.transition = data.transition
            /\ call.brightness = IF level # None
                                 THEN translate_brightness(entity, level)
                                 ELSE None

\* The calls are those of the first targets, in configuration order.
DispatchedInOrder(calls, data, level) ==
    /\ Len(calls) <= Len(entities)
    /\ \A n \in 1..Len(calls) : Dispatched(calls[n], entities[n], data, level)

\* C21: async_turn_on with effective brightness b makes, for each target in
\* configuration order, exactly one service call: turn_off when the
\* target's translate_brightness(b) is 0, with the entity id and, when
\* given, the transition only; otherwise turn_on with the forwarded
\* attributes and brightness translate_brightness(b), and no brightness
\* when b is None.  The calls of a command in progress, or of one that has
\* raised, are those of the first targets; a command that has returned has
\* made one call for every target.
DispatchRule ==
    /\ running.pc = "turn_on" =>
            /\ Len(running.calls) = running.i - 1
            /\ DispatchedInOrder(running.calls, running.data,
                                 running.brightness)
    /\ last.pc \in {"returned", "raised"} =>
            DispatchedInOrder(last.calls, last.data, last.brightness)
    /\ last.pc = "returned" => Len(last.calls) = Len(entities)

\* A command given a transition and a color temperature has returned: it
\* has turned one target off, with the transition and without the color
\* temperature, and another on with both and a brightness that is not the
\* brightness of the Lightener.
DispatchRuleWitness ==
    /\ last.pc = "returned"
    /\ last.data.transition # None
    /\ last.data.color_temp_kelvin # None
    /\ \E n \in 1..Len(last.calls) :
            /\ last.calls[n].service = "turn_off"
            /\ last.calls[n].transition = last.data.transition
            /\ last.calls[n].color_temp_kelvin = None
    /\ \E n \in 1..Len(last.calls) :
            /\ last.calls[n].service = "turn_on"
            /\ last.calls[n].color_temp_kelvin = last.data.color_temp_kelvin
            /\ last.calls[n].brightness \notin {None, last.brightness}

\* The last command was async_turn_on(brightness=b) with b in 1..255; it has
\* returned and its refresh has run; every target is in the state its call
\* asked for and some target is on.
CommandedAndRefreshed ==
    /\ running.pc = "idle"
    /\ last.pc = "returned"
    /\ last.data.brightness \in 1..255
    /\ refresh = 0
    /\ \A n \in 1..Len(entities) :
            InCommandedState(entities[n], last.data.brightness)
    /\ \E n \in 1..Len(entities) : states[entities[n].entity_id].state = "on"

\* C22: after async_turn_on(brightness=b), b in 1..255, has returned and was
\* refreshed, every target having applied the command it was sent and some
\* target being on, the Lightener is on and its brightness is b, in the
\* object and in the state written to hass.
CommandedBrightnessReported ==
    CommandedAndRefreshed =>
        /\ is_on
        /\ attr_brightness = last.data.brightness
        /\ published = [state |-> "on", brightness |-> last.data.brightness]

\* The brightness is reported back although an on/off target is on, a
\* dimmable target shows another level than the brightness of the
\* Lightener, and more than one Lightener level is common to the targets.
CommandedBrightnessReportedWitness ==
    /\ CommandedAndRefreshed
    /\ attr_brightness = last.data.brightness
    /\ \E n \in 1..Len(entities) :
            /\ entities[n].type = TYPE_ONOFF
            /\ states[entities[n].entity_id].state = "on"
    /\ \E n \in 1..Len(entities) :
            /\ entities[n].type = TYPE_DIMMABLE
            /\ states[entities[n].entity_id].state = "on"
            /\ states[entities[n].entity_id].brightness # attr_brightness
    /\ Cardinality(CommonLevels(
            [n \in 1..Len(entities) |->
                translate_brightness_back(
                    entities[n],
                    ObservedBrightness(states[entities[n].entity_id]))])) > 1

\* ------------------------------------------------------------------------
\* Properties of the Lightener turned on and off (GroupSpec).

\* The commands k, k + 1 and k + 2 of the history are
\* async_turn_on(brightness=b) with b in 1..255, async_turn_off() and
\* async_turn_on(), with no change of a target in between.
OnOffOn(k) ==
    /\ k + 2 <= Len(history)
    /\ history[k].command = "turn_on"
    /\ history[k].brightness \in 1..255
    /\ history[k + 1].command = "turn_off"
    /\ history[k + 2].command = "turn_on"
    /\ history[k + 2].brightness = None

\* The last command has ended and the Lightener has updated its state after
\* it.
Settled ==
    /\ running.pc = "idle"
    /\ refresh = 0
    /\ ~is_frozen

\* The k-th command of the history has asked a target that has a state to
\* turn on.
TurnsTargetOn(k) ==
    \E n \in 1..Len(history[k].calls) :
        /\ history[k].calls[n].service = "turn_on"
        /\ history[k].calls[n].entity_id \in DOMAIN states

\* After async_turn_on(brightness=b), then async_turn_off, an async_turn_on
\* without brightness asks of every target what async_turn_on(brightness=b)
\* asked, and once it is refreshed the brightness of the Lightener is b
\* again: the statement of C23 for every b.
RestoredAcrossOffOnAlways ==
    \A k \in 1..Len(history) :
        OnOffOn(k) =>
            /\ history[k + 2].calls = history[k].calls
            /\ (k + 2 = Len(history) /\ Settled) =>
                    attr_brightness = history[k].brightness

\* C23: after an async_turn_on(brightness=b) that turns at least one target
\* on, then async_turn_off, an async_turn_on without brightness asks of
\* every target what async_turn_on(brightness=b) asked, and once it is
\* refreshed the brightness of the Lightener is b again.
RestoredAcrossOffOn ==
    \A k \in 1..Len(history) :
        (OnOffOn(k) /\ TurnsTargetOn(k)) =>
            /\ history[k + 2].calls = history[k].calls
            /\ (k + 2 = Len(history) /\ Settled) =>
                    attr_brightness = history[k].brightness

\* The three commands have ended: the Lightener had no brightness after the
\* turn_off, the last turn_on has turned one target off again and another
\* on at a level that is not the brightness of the Lightener, which is on
\* with brightness b.
RestoredAcrossOffOnWitness ==
    /\ Len(history) = 3
    /\ OnOffOn(1)
    /\ TurnsTargetOn(1)
    /\ Settled
    /\ history[2].brightness = None
    /\ is_on
    /\ attr_brightness = history[1].brightness
    /\ published = [state |-> "on", brightness |-> history[1].brightness]
    /\ \E n \in 1..Len(history[3].calls) :
            history[3].calls[n].service = "turn_off"
    /\ \E n \in 1..Len(history[3].calls) :
            /\ history[3].calls[n].service = "turn_on"
            /\ history[3].calls[n].brightness \notin {None, attr_brightness}

\* The level a target with a state is observed at: 0 when it is off, 255
\* when it is on without a brightness attribute, else its brightness.
SeenLevel(entity_id) ==
    IF states[entity_id].state # "on" THEN 0
    ELSE IF states[entity_id].brightness = Absent THEN 255
    ELSE states[entity_id].brightness

\* The Lightener levels a target with a state can stand at.
PossibleLevels(entity) ==
    ToSet(translate_brightness_back(entity, SeenLevel(entity.entity_id)))

\* The Lightener levels common to the configured targets from the n-th on
\* that have a state.
RECURSIVE CommonFrom(_)
CommonFrom(n) ==
    IF n > Len(entities) THEN Levels
    ELSE IF entities[n].entity_id \in DOMAIN states
    THEN PossibleLevels(entities[n]) \cap CommonFrom(n + 1)
    ELSE CommonFrom(n + 1)

\* The Lightener levels common to all configured targets that have a state.
Common == CommonFrom(1)

\* Some configured target has a state and is on.
GroupOn ==
    \E n \in 1..Len(entities) :
        /\ entities[n].entity_id \in DOMAIN states
        /\ states[entities[n].entity_id].state = "on"

\* A step in which async_update_group_state has run while the Lightener was
\* not frozen: a refresh, the end of async_turn_off, or the notification of
\* a change of a target.
Updated ==
    \/ refresh' = refresh - 1 /\ ~is_frozen
    \/ running.pc = "turn_off" /\ running'.pc = "idle"
    \/ changes' = changes + 1 /\ ~is_frozen

\* C24: when async_update_group_state has run, the group is on and some
\* Lightener level is common to the levels translate_brightness_back gives
\* for all configured targets that have a state (an off target observed at
\* 0, an on target without brightness attribute at 255), the brightness of
\* the Lightener is one of the common levels, and it is the preferred
\* brightness when that is one of them.
BrightnessInference ==
    [][ Updated =>
            LET common == Common'
            IN  (GroupOn' /\ common # {}) =>
                    /\ is_on'
                    /\ attr_brightness' \in common
                    /\ prefered_brightness' \in common =>
                            attr_brightness' = prefered_brightness'
      ]_vars

\* A target has changed on its own next to a target without a state: the
\* Lightener is on at a common level that is neither the level of the
\* target nor the preferred brightness.
BrightnessInferenceWitness ==
    /\ Len(history) > 0
    /\ history[Len(history)].command = "change"
    /\ Settled
    /\ \E n \in 1..Len(entities) : entities[n].entity_id \notin DOMAIN states
    /\ is_on
    /\ attr_brightness \in Common
    /\ attr_brightness # prefered_brightness
    /\ \E n \in 1..Len(entities) :
            /\ entities[n].entity_id \in DOMAIN states
            /\ attr_brightness # SeenLevel(entities[n].entity_id)

\* The update is classified as caused by the Lightener: the group is on and
\* some configured target has a state written under the context of the
\* Lightener.
CausedByLightener ==
    /\ GroupOn
    /\ context # None
    /\ \E n \in 1..Len(entities) :
            /\ entities[n].entity_id \in DOMAIN states
            /\ states[entities[n].entity_id].context = context

\* C25: when async_update_group_state has run and the group is off, or no
\* Lightener level is common to the targets, the brightness of the
\* Lightener is the preferred brightness if the update is classified as
\* caused by the Lightener; otherwise it is what it was before the update
\* if the group is on or was off before, and None if the group has just gone
\* from on to off.
BrightnessFallback ==
    [][ Updated =>
            LET common == Common'
            IN  (~GroupOn' \/ common = {}) =>
                    attr_brightness' =
                        IF CausedByLightener' THEN prefered_brightness'
                        ELSE IF GroupOn' \/ ~is_on THEN attr_brightness
                        ELSE None
      ]_vars

\* The Lightener was turned on and off, and had no brightness; then a target
\* has changed on its own: no level is common, the update is classified as
\* caused by the Lightener and the brightness is the preferred brightness,
\* which it was not before.
BrightnessFallbackWitness ==
    /\ Len(history) = 3
    /\ history[2].command = "turn_off"
    /\ history[2].brightness = None
    /\ history[3].command = "change"
    /\ Settled
    /\ is_on
    /\ Common = {}
    /\ is_lightener_change
    /\ prefered_brightness # None
    /\ attr_brightness = prefered_brightness

\* ------------------------------------------------------------------------
\* Properties of the color modes (ColorSpec).

LineStarts(text) ==
    {i \in 1..Len(text) : i = 1 \/ text[i - 1] = "\n"}

\* The line that starts at a place: up to the next line break.
LineFrom(text, start) ==
    LET breaks == {i \in start..Len(text) : text[i] = "\n"}
        stop == IF breaks = {} THEN Len(text) + 1
                ELSE CHOOSE i \in breaks : \A j \in breaks : i <= j
    IN  SubSeq(text, start, stop - 1)

DecimalDigits == {"0", "1", "2", "3", "4", "5", "6", "7", "8", "9"}

\* The number a digit stands for: how many digits come before it.
DigitNumber(digit) ==
    CASE digit = "0" -> 0 [] digit = "1" -> 1 [] digit = "2" -> 2
      [] digit = "3" -> 3 [] digit = "4" -> 4 [] digit = "5" -> 5
      [] digit = "6" -> 6 [] digit = "7" -> 7 [] digit = "8" -> 8
      [] digit = "9" -> 9

RECURSIVE PowerOfTen(_)
PowerOfTen(n) == IF n = 0 THEN 1 ELSE 10 * PowerOfTen(n - 1)

\* The number digits write: each digit weighs ten times its right neighbour.
RECURSIVE WeightedSum(_, _)
WeightedSum(digits, n) ==
    IF n = 0 THEN 0
    ELSE DigitNumber(digits[n]) * PowerOfTen(Len(digits) - n)
            + WeightedSum(digits, n - 1)

NumberOf(digits) == WeightedSum(digits, Len(digits))

\* The numbers a field writes: a field is one or more digits with spaces,
\* if any, before and after them.
FieldNumbers(field) ==
    { NumberOf(SubSeq(field, span[1], span[2])) :
        span \in
            { <<a, b>> \in (1..Len(field)) \X (1..Len(field)) :
                /\ a <= b
                /\ \A i \in 1..Len(field) :
                    IF i < a \/ i > b THEN field[i] = " "
                    ELSE field[i] \in DecimalDigits } }

\* The pairs <<left, right>> a line writes as "left : right".
LineNumbers(line) ==
    UNION { FieldNumbers(SubSeq(line, 1, colon - 1))
                \X FieldNumbers(SubSeq(line, colon + 1, Len(line))) :
            colon \in {i \in 1..Len(line) : line[i] = ":"} }

\* The line has the form digits ':' digits with the left number in 1..100
\* and the right number in 0..100.
ValidLine(line) ==
    \E pair \in LineNumbers(line) :
        pair[1] \in 1..100 /\ pair[2] \in 0..100

\* The places where the invalid lines of a text start.
InvalidLines(text) ==
    {start \in LineStarts(text) : ~ValidLine(LineFrom(text, start))}

\* A brightness text is submitted to the light_configuration form.
Submits ==
    /\ flow_result.type = "form"
    /\ flow_result.step_id = "light_configuration"
    /\ user_text' # Missing
    /\ flow_result' # flow_result \/ user_text' # user_text

\* C27: a submission of the light_configuration form is accepted if and
\* only if every line of the text has the form digits ':' digits, spaces
\* allowed around each number, with the left number in 1..100 and the right
\* one in 0..100; the empty text is accepted as the empty mapping; a text
\* that is not accepted shows the same form again, with the error
\* invalid_brightness and the first invalid line as error_entry.
BrightnessTextValidation ==
    [][Submits =>
        LET text == user_text'[1]
            invalid == InvalidLines(text)
        IN  IF invalid = {}
            THEN /\ flow_result'.type = "create_entry"
                 /\ flow_result'.errors = {}
                 /\ text = <<>> =>
                        flow_result'.data.entities =
                            <<<<<<local_data.current_light[1],
                                  [brightness |-> <<EmptyDict>>]>>>>>>
            ELSE flow_result' =
                    [flow_result EXCEPT
                        !.errors = {<<"brightness", "invalid_brightness">>},
                        !.description_placeholders.error_entry =
                            <<LineFrom(text,
                                CHOOSE first \in invalid :
                                    \A other \in invalid : first <= other)>>,
                        !.suggested_value = <<text>>]
    ]_vars

\* A text of two lines was submitted whose first line is valid and whose
\* second has a left number above 100: the form names the second line.
BrightnessTextValidationWitness ==
    /\ user_text = <<<<"1", ":", "0", "\n", "1", "0", "1", ":", "1">>>>
    /\ flow_result.type = "form"
    /\ flow_result.step_id = "light_configuration"
    /\ flow_result.errors = {<<"brightness", "invalid_brightness">>}
    /\ flow_result.description_placeholders.error_entry =
            <<<<"1", "0", "1", ":", "1">>>>

\* A number is written in decimal without leading zeros.
IsDecimal(digits) ==
    /\ Len(digits) >= 1
    /\ \A i \in 1..Len(digits) : digits[i] \in DecimalDigits
    /\ Len(digits) > 1 => digits[1] # "0"

\* The mapping a text of valid lines writes: each left number is mapped to
\* the right number of the last line it is the left number of.
MappingOf(text) ==
    { pair \in UNION {LineNumbers(LineFrom(text, start)) :
                        start \in LineStarts(text)} :
        \E start \in LineStarts(text) :
            /\ pair \in LineNumbers(LineFrom(text, start))
            /\ \A later \in LineStarts(text) :
                later > start =>
                    \A other \in LineNumbers(LineFrom(text, later)) :
                        other[1] # pair[1] }

\* A brightness dict holds the mapping of a text: its keys and values are
\* decimal strings, no key appears twice and its items are the mapping.
HoldsMappingOf(brightness, text) ==
    /\ \A i \in 1..Len(brightness) :
        /\ IsDecimal(brightness[i][1])
        /\ IsDecimal(brightness[i][2])
        /\ \A j \in 1..Len(brightness) :
            brightness[i][1] = brightness[j][1] => i = j
    /\ {<<NumberOf(brightness[i][1]), NumberOf(brightness[i][2])>> :
            i \in 1..Len(brightness)} = MappingOf(text)

\* The next state shows the form of a step.
Shows(step_id) ==
    /\ flow_result'.type = "form"
    /\ flow_result'.step_id = step_id

\* The next state shows the light_configuration form of the k-th selected
\* light; it is the last step exactly for the last selected light.
ShowsLight(selection, k) ==
    /\ Shows("light_configuration")
    /\ flow_result'.description_placeholders.light_name =
            <<LightName(selection[k])>>
    /\ flow_result'.last_step <=> (k = Len(selection))

\* The place in the selection of the light whose form is shown.
ShownLight(selection) ==
    CHOOSE k \in 1..Len(selection) :
        <<LightName(selection[k])>> =
            flow_result.description_placeholders.light_name

\* The data with the brightness of a text stored for the k-th selected
\* light and nothing else changed.
StoresBrightness(before, after, selection, k, text) ==
    /\ after.friendly_name = before.friendly_name
    /\ Len(after.entities[1]) = Len(before.entities[1])
    /\ \A j \in 1..Len(selection) :
        /\ DictHas(after.entities[1], selection[j])
        /\ j # k => DictGet(after.entities[1], selection[j]) =
                        DictGet(before.entities[1], selection[j])
    /\ DictGet(after.entities[1], selection[k]).brightness # Missing
    /\ HoldsMappingOf(DictGet(after.entities[1], selection[k]).brightness[1],
                      text)

\* A step of the config flow.
WizardStep ==
    /\ flow_handler = "none" =>
        /\ Shows("user")
        /\ ~flow_result'.last_step
    /\ (flow_handler = "config" /\ flow_result.step_id = "user") =>
        /\ Shows("lights")
        /\ ~flow_result'.last_step
        /\ flow_data'.friendly_name \in {<<name>> : name \in FlowNames}
    /\ (flow_handler = "config" /\ flow_result.step_id = "lights") =>
        IF user_selection' = <<<<>>>>
        THEN /\ Shows("lights")
             /\ ~flow_result'.last_step
             /\ flow_result'.errors # {}
             /\ flow_data' = flow_data
        ELSE /\ ShowsLight(user_selection'[1], 1)
             /\ flow_result'.errors = {}
             /\ flow_data'.friendly_name = flow_data.friendly_name
             /\ Len(flow_data'.entities[1]) = Len(user_selection'[1])
             /\ \A k \in 1..Len(user_selection'[1]) :
                    /\ DictHas(flow_data'.entities[1], user_selection'[1][k])
                    /\ DictGet(flow_data'.entities[1],
                               user_selection'[1][k]).brightness = Missing
    /\ (flow_handler = "config"
            /\ flow_result.step_id = "light_configuration") =>
        LET selection == user_selection[1]
            k == ShownLight(selection)
            text == user_text'[1]
        IN  IF InvalidLines(text) # {}
            THEN /\ ShowsLight(selection, k)
                 /\ flow_result'.errors # {}
                 /\ flow_data' = flow_data
            ELSE IF k < Len(selection)
            THEN /\ ShowsLight(selection, k + 1)
                 /\ flow_result'.errors = {}
                 /\ StoresBrightness(flow_data, flow_data', selection, k, text)
            ELSE /\ flow_result'.type = "create_entry"
                 /\ flow_result'.title = flow_data.friendly_name
                 /\ flow_result'.title \in {<<name>> : name \in FlowNames}
                 /\ StoresBrightness(flow_data, flow_result'.data,
                                     selection, k, text)
    /\ (flow_handler' = "config" \/ flow_handler = "config")
            /\ flow_result'.type = "create_entry" =>
        /\ flow_result.type = "form"
        /\ flow_result.step_id = "light_configuration"
        /\ flow_result.last_step

\* C28: the config flow shows the name form, then the lights form, which it
\* leaves only on a selection that is not empty, then one
\* light_configuration form for each selected light in the order of the
\* selection, with last_step true exactly on the form of the last selected
\* light; the entry is created only when the brightness of the last light
\* is accepted, with the data {friendly_name, entities: {each selected
\* light: {brightness: the mapping of its text}}}.
WizardStepOrder ==
    [][(flow_handler = "config" \/ flow_handler' = "config") => WizardStep]_vars

\* The entry was created for two lights, the second one selected first,
\* each with the mapping of its own text.
WizardStepOrderWitness ==
    /\ flow_result.type = "create_entry"
    /\ flow_result.title = <<"Test Name">>
    /\ user_selection = <<<<"light.test2", "light.test1">>>>
    /\ flow_result.data =
        [friendly_name |-> <<"Test Name">>,
         entities |->
            << << <<"light.test2",
                    [brightness |-> << << <<<<"1">>, <<"0">>>> >> >>]>>,
                  <<"light.test1",
                    [brightness |-> << << <<<<"1", "0">>, <<"1">>>> >> >>]>> >> >>]

\* A step of the options flow that accepts the brightness of a light.
OptionsStep ==
    LET selection == user_selection[1]
        k == ShownLight(selection)
        text == user_text'[1]
    IN  IF k < Len(selection)
        THEN /\ flow_handler' = "options"
             /\ config_entry' = config_entry
             /\ StoresBrightness(flow_data, flow_data', selection, k, text)
        ELSE /\ flow_handler' = "none"
             /\ StoresBrightness(flow_data, config_entry'[1].data,
                                 selection, k, text)
             /\ \A light \in FlowLights :
                    DictHas(config_entry'[1].data.entities[1], light)
                        <=> \E j \in 1..Len(selection) : selection[j] = light
             /\ \A j \in 1..Len(selection) :
                    DictGet(config_entry'[1].data.entities[1],
                            selection[j]).brightness # Missing
             /\ config_entry'[1].data.friendly_name =
                    config_entry[1].data.friendly_name
             /\ config_entry'[1].options = config_entry[1].options
             /\ config_entry'[1].version = config_entry[1].version
             /\ config_entry'[1].title = config_entry[1].title
             /\ flow_result'.type = "create_entry"
             /\ flow_result'.title = <<"">>
             /\ flow_result'.data = EmptyData

\* C29: completing the options flow replaces the entities of the entry by
\* exactly the lights selected in this run, each with the brightness
\* mapping entered for it in this run, keeps friendly_name and the options
\* of the entry, and ends with a result of empty title and empty data.
OptionsFlowResult ==
    [][(/\ flow_handler = "options"
        /\ flow_result.step_id = "light_configuration"
        /\ user_text' # Missing
        /\ InvalidLines(user_text'[1]) = {}) => OptionsStep]_vars

\* An options flow has ended in which only light.test2 was selected and
\* given a mapping: it is the only light of the entry.
OptionsFlowResultWitness ==
    /\ flow_handler = "none"
    /\ flow_result.type = "create_entry"
    /\ flow_result.title = <<"">>
    /\ user_selection = <<<<"light.test2">>>>
    /\ user_text = <<<<"1", "0", ":", "1">>>>
    /\ config_entry # Missing
    /\ config_entry[1].data =
        [friendly_name |-> <<"Test Name">>,
         entities |->
            << << <<"light.test2",
                    [brightness |-> << << <<<<"1", "0">>, <<"1">>>> >> >>]>> >> >>]

\* ------------------------------------------------------------------------
\* Properties of the migration of the configuration (MigrateSpec).

\* The entities of a migrated entry: the lights of the old entry, each with
\* its old brightness dict under the key "brightness".
Wrapped(old_entities, new_entities) ==
    /\ new_entities # Missing
    /\ IF old_entities = Missing THEN new_entities[1] = EmptyDict
       ELSE /\ Len(new_entities[1]) = Len(old_entities[1])
            /\ \A i \in 1..Len(old_entities[1]) :
                /\ DictHas(new_entities[1], old_entities[1][i][1])
                /\ DictGet(new_entities[1], old_entities[1][i][1]) =
                        [brightness |-> <<old_entities[1][i][2]>>]

\* C30: async_migrate_entry on an entry of version None or 1 updates it to
\* version 2 with the percent mapping of every entity wrapped as
\* {brightness: mapping} and friendly_name kept, and returns True; on an
\* entry of version 2 it returns True and on one of any other version
\* False, the data being left untouched in both cases.
ConfigurationMigration ==
    [][(migrated = Missing /\ migrated' # Missing) =>
        IF config_entry[1].version \in {None, 1}
        THEN /\ migrated' = <<TRUE>>
             /\ config_entry'[1].version = 2
             /\ config_entry'[1].data.friendly_name =
                    config_entry[1].data.friendly_name
             /\ Wrapped(config_entry[1].data.entities,
                        config_entry'[1].data.entities)
        ELSE /\ migrated' = <<config_entry[1].version = 2>>
             /\ config_entry' = config_entry
    ]_vars

\* An entry with a name and two lights has been migrated to version 2.
ConfigurationMigrationWitness ==
    /\ migrated = <<TRUE>>
    /\ config_entry[1].version = 2
    /\ config_entry[1].data.friendly_name = <<"Test">>
    /\ Len(config_entry[1].data.entities[1]) = 2
    /\ DictGet(config_entry[1].data.entities[1], "light.test2") =
        [brightness |->
            << << <<<<"5", "0">>, <<"6", "0">>>>,
                  <<<<"7", "0">>, <<"8", "0">>>> >> >>]

\* ------------------------------------------------------------------------
\* The frozen window.

\* A step in which no command starts: none of the two command counters moves.
NoCommandStarts ==
    /\ commands' = commands
    /\ turn_offs' = turn_offs

\* A target's state is not the one the Lightener shows.
TargetAhead ==
    /\ \E e \in DOMAIN states : states[e].state = "on"
    /\ published.state = "off"

\* C31: while a command is dispatching, that is while the Lightener is frozen
\* before and after the step and the step is not the start of a command,
\* no step changes the brightness or the on state of the Lightener and no
\* step publishes a state: the updates and writes that the targets' state
\* changes and the refresh tasks ask for during the window do nothing.
FrozenWindow ==
    [][(is_frozen /\ is_frozen' /\ NoCommandStarts) =>
            /\ attr_brightness' = attr_brightness
            /\ is_on' = is_on
            /\ published' = published]_vars

\* A command is dispatching, a target has already turned on, and the
\* Lightener still shows the state it had before the command.
FrozenWindowWitness ==
    /\ running.pc = "turn_on"
    /\ is_frozen
    /\ running.i > 1
    /\ TargetAhead
    /\ ~is_on

\* C32: every command ends with the Lightener unfrozen, also when a service
\* call of a target raises: whenever no command is in progress, the
\* Lightener is not frozen, so that updates and writes are not suppressed.
DispatchReturnsToIdle ==
    running.pc = "idle" => ~is_frozen

\* ------------------------------------------------------------------------
\* Overlapping commands (OverlapSpec).

\* A command is still dispatching: its coroutine is in progress or waits.
Dispatching ==
    \/ running.pc # "idle"
    \/ suspended.pc # "idle"

\* C33: when two commands of the same Lightener overlap, the Lightener stays
\* frozen until the last of them has finished dispatching: it is frozen
\* whenever a command is still dispatching.
FrozenUntilLastCommand ==
    Dispatching => is_frozen

\* ------------------------------------------------------------------------
\* The refresh after a command (RefreshSpec).

\* The targets that have a state, and the Lightener levels each of them may
\* stand for in its current state.
TargetsNow == SelectSeq(entities, LAMBDA e : e.entity_id \in DOMAIN states)

LevelsNow ==
    [n \in 1..Len(TargetsNow) |->
        translate_brightness_back(
            TargetsNow[n], ObservedBrightness(states[TargetsNow[n].entity_id]))]

AnyTargetOn == \E e \in DOMAIN states : states[e].state = "on"

\* The state of the Lightener and the state it has published are the ones
\* computed from the current states of the targets: on exactly when a target
\* is on, and then with a brightness every target may stand for, if there
\* is one.
Recomputed ==
    /\ is_on = AnyTargetOn
    /\ published.state = IF AnyTargetOn THEN "on" ELSE "off"
    /\ published.brightness = IF AnyTargetOn THEN attr_brightness ELSE None
    /\ (AnyTargetOn /\ Len(LevelsNow) > 0 /\ CommonLevels(LevelsNow) # {})
            => attr_brightness \in CommonLevels(LevelsNow)

\* C34: after a turn_on or a turn_off that completes, the state of the
\* Lightener is eventually recomputed from the then-current states of the
\* targets and published: whenever the published state is behind the
\* targets, as it is after changes that arrived during the frozen window,
\* it eventually is the recomputed one.
RefreshAfterCommand ==
    (~Recomputed) ~> Recomputed

\* A turn_on command has completed, its refresh task has not run yet, and a
\* target it turned on is not yet in the published state.
RefreshAfterCommandWitness ==
    /\ last.pc = "returned"
    /\ running.pc = "idle"
    /\ refresh > 0
    /\ AnyTargetOn
    /\ published.state = "off"
    /\ ~Recomputed

\* ------------------------------------------------------------------------
\* The tables while the Lightener is in use (TableSpec).

\* C35: the tables are read-only after construction: no command, service
\* call, refresh or state update of the Lightener changes the forward, the
\* backward or the on/off backward table of the controlled light, also not
\* through the lists translate_brightness_back returns to the update.
TablesReadOnly ==
    [][/\ levels' = levels
       /\ to_lightener_levels' = to_lightener_levels
       /\ to_lightener_levels_on_off' = to_lightener_levels_on_off]_vars

\* An update has taken the brightness of the Lightener from the list
\* translate_brightness_back returned for the target, which is on, after a
\* turn_on command and a change of the target.
TablesReadOnlyWitness ==
    /\ commands > 0
    /\ changes > 0
    /\ refresh = 0
    /\ ~is_frozen
    /\ is_on
    /\ Len(LevelsNow) > 0
    /\ CommonLevels(LevelsNow) # {}
    /\ attr_brightness \in CommonLevels(LevelsNow)
    /\ levels # <<>>

\* ------------------------------------------------------------------------
\* The calls of scale_ranged_value_to_int_range (MapSpec).

\* C36: while the forward and the backward map are built from a prepared
\* configuration, scale_ranged_value_to_int_range is never given a source
\* range whose two ends are equal: the breakpoints are strictly increasing
\* in the Lightener level, so every forward segment has start < end, and
\* no backward walk is made for a segment with start_value = end_value.
NoDivisionByZero ==
    /\ \A i \in 1..(Len(brightness_config) - 1) :
            brightness_config[i][1] < brightness_config[i + 1][1]
    /\ \A source_range \in ForwardCalls(brightness_config) :
            source_range[1] < source_range[2]
    /\ \A source_range \in BackwardCalls(brightness_config) :
            source_range[1] # source_range[2]
    /\ Cardinality(ForwardCalls(brightness_config)) = Len(brightness_config) - 1

\* A configuration with a breakpoint of its own that has a segment with
\* equal entity levels at both ends, whose walk is skipped, next to
\* segments that are walked.
NoDivisionByZeroWitness ==
    /\ Len(config_brightness) > 0
    /\ \E i \in 1..(Len(brightness_config) - 1) :
            brightness_config[i][2] = brightness_config[i + 1][2]
    /\ BackwardCalls(brightness_config) # {}
    /\ ForwardCalls(brightness_config) # {}

\* ------------------------------------------------------------------------
\* The round trip of an on/off target (MapSpec).

\* The on/off backward list of the level an on/off target is sent for the
\* Lightener level v: the list of 0 when it is sent 0, else the list of 255.
SentList(v) ==
    translate_brightness_back(OnOffLight, translate_brightness(OnOffLight, v))

\* C37: for an on/off target and every Lightener level v in 0..255, v is in
\* the on/off backward list of the level the target is sent, which is 0 or
\* 255; the list of 0 and the list of 255 have no level in common and
\* together hold every level in 0..255.
OnOffRoundTrip ==
    LET off_list == translate_brightness_back(OnOffLight, 0)
        on_list == translate_brightness_back(OnOffLight, 255)
    IN  /\ \A v \in Levels :
                /\ translate_brightness(OnOffLight, v) \in {0, 255}
                /\ SentList(v) = IF translate_brightness(OnOffLight, v) = 0
                                 THEN off_list ELSE on_list
                /\ InList(v, SentList(v))
        /\ ToSet(off_list) \cap ToSet(on_list) = {}
        /\ ToSet(off_list) \cup ToSet(on_list) = Levels

\* A configuration that sends the target off at levels above 0 and on at
\* levels whose forward value is neither 0 nor 255.
OnOffRoundTripWitness ==
    /\ Len(config_brightness) > 0
    /\ \E v \in 1..255 :
            /\ translate_brightness(OnOffLight, v) = 0
            /\ InList(v, to_lightener_levels_on_off[0])
    /\ \E v \in 1..255 :
            /\ levels[v] \in 1..254
            /\ translate_brightness(OnOffLight, v) = 255
            /\ InList(v, to_lightener_levels_on_off[255])

\* ------------------------------------------------------------------------
\* Repeated turn_off (RepeatSpec).

\* The commands k to m of the history are async_turn_on(brightness=b) with b
\* in 1..255, one or more async_turn_off(), and async_turn_on().
OnOffsOn(k, m) ==
    /\ k + 2 <= m
    /\ m <= Len(history)
    /\ history[k].command = "turn_on"
    /\ history[k].brightness \in 1..255
    /\ \A n \in (k + 1)..(m - 1) : history[n].command = "turn_off"
    /\ history[m].command = "turn_on"
    /\ history[m].brightness = None

\* C38: after an async_turn_on(brightness=b) that turns a target on,
\* followed by one or more async_turn_off commands, an async_turn_on without
\* brightness asks of every target what async_turn_on(brightness=b) asked.
RememberedAcrossRepeatedOff ==
    \A k \in 1..Len(history), m \in 1..Len(history) :
        (OnOffsOn(k, m) /\ TurnsTargetOn(k)) =>
            history[m].calls = history[k].calls

\* ------------------------------------------------------------------------
\* A rejected brightness submission (FlowSpec).

\* C39: a brightness submission that is rejected, that is one whose text has
\* an invalid line, changes nothing: the data of the flow with the mapping
\* stored for every light, the list of lights still to configure and the
\* current light are as before, the form of the same light is shown again,
\* the flow goes on, and no entry is created or updated.
RejectedSubmission ==
    [][(/\ flow_result.type = "form"
        /\ flow_result.step_id = "light_configuration"
        /\ user_text' # Missing
        /\ InvalidLines(user_text'[1]) # {}) =>
            /\ flow_data' = flow_data
            /\ local_data' = local_data
            /\ config_entry' = config_entry
            /\ flow_handler' = flow_handler
            /\ flow_result'.type = "form"
            /\ flow_result'.step_id = flow_result.step_id
            /\ flow_result'.last_step = flow_result.last_step
            /\ flow_result'.description_placeholders.light_name =
                    flow_result.description_placeholders.light_name
            /\ flow_result'.errors # {}]_vars

\* An options flow over two lights has rejected the text submitted for the
\* first one: its form is shown with the error and the second light is
\* still to configure.
RejectedSubmissionWitness ==
    /\ flow_handler = "options"
    /\ flow_result.type = "form"
    /\ flow_result.step_id = "light_configuration"
    /\ flow_result.errors # {}
    /\ ~flow_result.last_step
    /\ user_text # Missing
    /\ InvalidLines(user_text[1]) # {}
    /\ local_data.controlled_entities # Missing
    /\ Len(local_data.controlled_entities[1]) = 1
    /\ config_entry # Missing

\* ------------------------------------------------------------------------
\* The round trip of a stored brightness (RoundTripSpec).

\* The mapping stored for light.test1 in an entry.
StoredFor(entry) == DictGet(entry[1].data.entities[1], "light.test1").brightness[1]

\* The keys of a mapping are decimal strings of numbers in 1..100, no key
\* twice, and its values decimal strings of numbers in 0..100.
PercentMapping(brightness) ==
    \A i \in 1..Len(brightness) :
        /\ IsDecimal(brightness[i][1])
        /\ IsDecimal(brightness[i][2])
        /\ NumberOf(brightness[i][1]) \in 1..100
        /\ NumberOf(brightness[i][2]) \in 0..100
        /\ \A j \in 1..Len(brightness) :
                brightness[i][1] = brightness[j][1] => i = j

\* C40: for every stored brightness mapping with decimal-string keys in
\* 1..100 and values in 0..100, the text the options flow suggests has one
\* 'key: value' line for each entry; submitted as it is, it is accepted by
\* the validation and the mapping stored from it is the same mapping.
StoredRoundTrip ==
    [][(/\ flow_handler = "options"
        /\ flow_result.type = "form"
        /\ flow_result.step_id = "light_configuration"
        /\ flow_result.errors = {}
        /\ user_text' = flow_result.suggested_value
        /\ PercentMapping(StoredFor(config_entry))) =>
            LET text == flow_result.suggested_value[1]
                stored == StoredFor(config_entry)
            IN  /\ Cardinality(LineStarts(text)) = Len(stored)
                /\ InvalidLines(text) = {}
                /\ HoldsMappingOf(stored, text)
                /\ flow_result'.type = "create_entry"
                /\ flow_result'.errors = {}
                /\ Len(StoredFor(config_entry')) = Len(stored)
                /\ ToSet(StoredFor(config_entry')) = ToSet(stored)]_vars

\* The options flow has ended after the text suggested for a mapping of two
\* entries, one with the key 100 and one with the value 0, was submitted.
StoredRoundTripWitness ==
    /\ flow_handler = "none"
    /\ flow_result.type = "create_entry"
    /\ user_text # Missing
    /\ Cardinality(LineStarts(user_text[1])) = 2
    /\ Len(StoredFor(config_entry)) = 2
    /\ \E i \in 1..2 : StoredFor(config_entry)[i][1] = <<"1", "0", "0">>
    /\ \E i \in 1..2 : StoredFor(config_entry)[i][2] = <<"0">>
    /\ user_text[1] = FormatBrightness(StoredFor(config_entry))

====
